---------------------------- MODULE Spec2Model ----------------------------
(***************************************************************************)
(* A model of the whatsapp-chat-analyzer core: the message model, the      *)
(* conversation chunker, the participant/date filters, the WhatsApp text   *)
(* parser and the format dispatch of ChatAnalyzer.parse.                   *)
(*                                                                         *)
(* A Python str is a sequence of one-character strings; the invisible      *)
(* Unicode marks are written as named atoms (LRM, BOM, ...).  None is the  *)
(* record None.  Each component has its own specification over its own     *)
(* group of variables; the other groups stay at their idle values.         *)
(***************************************************************************)
EXTENDS Integers, Sequences, FiniteSets, TLC

VARIABLES
    \* ConversationChunker.chunk
    conversation,      \* the Conversation handed to chunk / to the filters
    max_chars,         \* ConversationChunker.max_chars
    chunks,            \* chunks: list[Conversation] (each a message list)
    current_messages,  \* current_messages
    current_chars,     \* current_chars
    ci,                \* position of the for loop over conversation.messages
    cpc,               \* "idle" | "begin" | "loop" | "done"
    \* Conversation.filter_by_participant / filter_by_date_range, apply_filters
    self_messages,     \* self.messages of the Conversation being filtered
    filter_call,       \* the call made: its name and its arguments
    filtered,          \* the messages of the Conversation returned
    fpc,               \* "idle" | "ready" | "done"
    \* WhatsAppTextParser.parse_text
    text,              \* the text handed to parse_text
    lines,             \* lines = text.split("\n")
    messages,          \* messages: list[ChatMessage]
    current_msg,       \* current_msg: ChatMessage | None
    li,                \* position of the for loop over lines
    ppc,               \* "idle" | "begin" | "loop" | "done"
    \* ChatAnalyzer.parse
    source,            \* the source handed to parse: a path or raw text
    files,             \* the paths that exist on the file system
    parser_i,          \* position of the for loop over self._parsers
    asked,             \* the parsers whose can_handle was called, with the answers
    ran,               \* the parsers whose parse was called
    outcome,           \* what parse gave: a return or a raise
    dpc,               \* "idle" | "loop" | "done"
    \* ConversationChunker.needs_chunking
    needs_result,      \* what needs_chunking returned
    npc,               \* "idle" | "call" | "done"
    \* ChatAnalyzer.analyze
    an_source,         \* source
    an_files,          \* the files that exist, each with its text
    an_participant,    \* participant
    an_start,          \* start_date
    an_end,            \* end_date
    an_conversation,   \* conversation.messages
    an_filtered,       \* filtered.messages
    an_chunks,         \* chunks
    an_result,         \* result: AnalysisResult
    an_partial,        \* partial_summaries, partial_topics, partial_actions
    an_i,              \* position of the for loop over chunks
    llm_calls,         \* the generate calls made: the prompt, and what generate gave
    an_outcome,        \* what analyze gave: a return or a raise
    apc,               \* "idle" | "begin" | the generate call that is next | "done"
    \* Conversation objects and the calls that take and return them
    heap,              \* the Conversation objects made so far: the messages of each
    fr_before,         \* heap as it was when the last call was made
    fr_self,           \* the object the last call was made on
    fr_call,           \* the name of the last call
    fr_returned,       \* the objects the last call returned
    fr_calls,          \* how many calls were made
    \* ImageParser.parse
    img_vision,        \* what the vision model does with the image
    img_ocr,           \* what the OCR does with the image
    img_text,          \* text
    img_tried,         \* the extractions tried, in order
    img_handed,        \* the text handed to parse_text, None when it was not called
    img_outcome,       \* what parse gave
    ipc,               \* "idle" | "llava" | "ocr" | "return" | "done"
    \* backend/main.py: parse_file, analyze_file
    up_endpoint,       \* the endpoint called
    up_form,           \* the upload's filename and the start_date and end_date fields
    up_analyzer,       \* what the analyzer does with the temporary file
    tmp_files,         \* the temporary files that exist
    tmp_path,          \* tmp_path
    up_response,       \* the status of the HTTP response
    upc                \* "idle" | "begin" | "dates" | "call" | "done"

chunkVars == <<conversation, max_chars, chunks, current_messages, current_chars, ci, cpc>>

filterVars == <<self_messages, filter_call, filtered, fpc>>

parseVars == <<text, lines, messages, current_msg, li, ppc>>

dispatchVars == <<source, files, parser_i, asked, ran, outcome, dpc>>

needsVars == <<needs_result, npc>>

analyzeVars ==
    <<an_source, an_files, an_participant, an_start, an_end, an_conversation, an_filtered,
      an_chunks, an_result, an_partial, an_i, llm_calls, an_outcome, apc>>

frameVars == <<heap, fr_before, fr_self, fr_call, fr_returned, fr_calls>>

imageVars == <<img_vision, img_ocr, img_text, img_tried, img_handed, img_outcome, ipc>>

uploadVars == <<up_endpoint, up_form, up_analyzer, tmp_files, tmp_path, up_response, upc>>

vars ==
    <<chunkVars, filterVars, parseVars, dispatchVars, needsVars, analyzeVars, frameVars,
      imageVars, uploadVars>>

\* what the chunker, the filters, the parsers' dispatch and analyze leave alone
restVars == <<frameVars, imageVars, uploadVars>>

\* the state of the chunker, the filters, parse_text, the dispatch, needs_chunking
\* and analyze
coreVars == <<chunkVars, filterVars, parseVars, dispatchVars, needsVars, analyzeVars>>

\* what calls on Conversation objects leave alone
notFrameVars == <<coreVars, imageVars, uploadVars>>

\* what ImageParser.parse leaves alone
notImageVars == <<coreVars, frameVars, uploadVars>>

\* what the upload endpoints leave alone
notUploadVars == <<coreVars, frameVars, imageVars>>

\* what the chunker leaves alone
notChunkVars == <<filterVars, parseVars, dispatchVars, needsVars, analyzeVars, restVars>>

\* what the filters leave alone
notFilterVars == <<chunkVars, parseVars, dispatchVars, needsVars, analyzeVars, restVars>>

\* what parse_text leaves alone
notParseVars == <<chunkVars, filterVars, dispatchVars, needsVars, analyzeVars, restVars>>

\* what ChatAnalyzer.parse leaves alone
notDispatchVars == <<chunkVars, filterVars, parseVars, needsVars, analyzeVars, restVars>>

\* what ChatAnalyzer.analyze leaves alone
notAnalyzeVars == <<chunkVars, filterVars, parseVars, dispatchVars, needsVars, restVars>>

\* what needs_chunking leaves alone
notNeedsVars == <<chunkVars, filterVars, parseVars, dispatchVars, analyzeVars, restVars>>

-----------------------------------------------------------------------------
(* Bounds of the model *)

\* longest message list drawn for the chunker
MaxMsgs == 3

\* most calls made one after the other on Conversation objects
MaxFrameCalls == 2
\* largest max_chars drawn for the chunker
MaxMaxChars == 64
\* longest message list drawn for the filters
MaxFilterMsgs == 3
\* most lines of a text drawn for parse_text
MaxLines == 3

-----------------------------------------------------------------------------
(* Characters and strings *)

None == [none |-> TRUE]

\* None where a str is expected (str | None)
NoneStr == <<"None">>

\* a str literal as the sequence of its characters
Chars(s) == [i \in 1..Len(s) |-> SubSeq(s, i, i)]

Digits == {"0", "1", "2", "3", "4", "5", "6", "7", "8", "9"}

DigitChar(d) == Chars("0123456789")[d + 1]

\* "%02d" / "%04d" as strftime writes the fields of a datetime
Pad2(n) == <<DigitChar((n \div 10) % 10), DigitChar(n % 10)>>

Pad4(n) == <<DigitChar((n \div 1000) % 10), DigitChar((n \div 100) % 10)>> \o Pad2(n % 100)

RECURSIVE JoinWith(_, _)
\* sep.join(parts)
JoinWith(parts, sep) ==
    IF Len(parts) = 0 THEN <<>>
    ELSE IF Len(parts) = 1 THEN parts[1]
    ELSE parts[1] \o sep \o JoinWith(Tail(parts), sep)

-----------------------------------------------------------------------------
(* models/message.py *)

\* datetime: a naive timestamp
Timestamp(y, mo, d, h, mi, s) ==
    [year |-> y, month |-> mo, day |-> d, hour |-> h, minute |-> mi, second |-> s]

\* ChatMessage dataclass
ChatMessage(ts, sender, content, is_system, is_media) ==
    [timestamp |-> ts, sender |-> sender, content |-> content,
     is_system |-> is_system, is_media |-> is_media]

\* f"{timestamp:%Y-%m-%d %H:%M}"
FormatTs(ts) ==
    Pad4(ts.year) \o <<"-">> \o Pad2(ts.month) \o <<"-">> \o Pad2(ts.day)
        \o <<" ">> \o Pad2(ts.hour) \o <<":">> \o Pad2(ts.minute)

\* ChatMessage.__str__
Str(m) ==
    IF m.is_system
    THEN <<"[">> \o FormatTs(m.timestamp) \o Chars("] ") \o m.content
    ELSE <<"[">> \o FormatTs(m.timestamp) \o Chars("] ") \o m.sender
             \o Chars(": ") \o m.content

\* Conversation.to_text
ToText(msgs) ==
    JoinWith([i \in 1..Len(msgs) |-> Str(msgs[i])], <<"\n">>)

-----------------------------------------------------------------------------
(* analyzer/chunker.py *)

\* ChunkLoopBody without the "+ 1  # +1 for newline" of line 40
ChunkLoopBody_NoNewline(st, message, maxc) ==
    LET msg_len == Len(Str(message))
        close == st.current_chars + msg_len > maxc /\ st.current_messages # <<>>
        chunks1 == IF close THEN Append(st.chunks, st.current_messages) ELSE st.chunks
        msgs1 == IF close THEN <<>> ELSE st.current_messages
        chars1 == IF close THEN 0 ELSE st.current_chars
    IN  [chunks |-> chunks1,
         current_messages |-> Append(msgs1, message),
         current_chars |-> chars1 + msg_len]

\* ChunkLoopBody without the "and current_messages" of line 34
ChunkLoopBody_NoGuard(st, message, maxc) ==
    LET msg_len == Len(Str(message))
        close == st.current_chars + msg_len > maxc
        chunks1 == IF close THEN Append(st.chunks, st.current_messages) ELSE st.chunks
        msgs1 == IF close THEN <<>> ELSE st.current_messages
        chars1 == IF close THEN 0 ELSE st.current_chars
    IN  [chunks |-> chunks1,
         current_messages |-> Append(msgs1, message),
         current_chars |-> chars1 + msg_len + 1]

\* ChunkLoopBody closing the current chunk for an oversized message only
ChunkLoopBody_OversizeOnly(st, message, maxc) ==
    LET msg_len == Len(Str(message))
        close == msg_len > maxc /\ st.current_messages # <<>>
        chunks1 == IF close THEN Append(st.chunks, st.current_messages) ELSE st.chunks
        msgs1 == IF close THEN <<>> ELSE st.current_messages
        chars1 == IF close THEN 0 ELSE st.current_chars
    IN  [chunks |-> chunks1,
         current_messages |-> Append(msgs1, message),
         current_chars |-> chars1 + msg_len + 1]

\* ChunkLoopBody comparing with >= instead of > in line 34
ChunkLoopBody_AtLeast(st, message, maxc) ==
    LET msg_len == Len(Str(message))
        close == st.current_chars + msg_len >= maxc /\ st.current_messages # <<>>
        chunks1 == IF close THEN Append(st.chunks, st.current_messages) ELSE st.chunks
        msgs1 == IF close THEN <<>> ELSE st.current_messages
        chars1 == IF close THEN 0 ELSE st.current_chars
    IN  [chunks |-> chunks1,
         current_messages |-> Append(msgs1, message),
         current_chars |-> chars1 + msg_len + 1]

\* the body of the for loop of chunk (lines 31-40) on one message, as a step
\* from the loop's locals to the loop's locals
ChunkLoopBody(st, message, maxc) ==
    LET msg_len == Len(Str(message))
        close == st.current_chars + msg_len > maxc /\ st.current_messages # <<>>
        chunks1 == IF close THEN Append(st.chunks, st.current_messages) ELSE st.chunks
        msgs1 == IF close THEN <<>> ELSE st.current_messages
        chars1 == IF close THEN 0 ELSE st.current_chars
    IN  [chunks |-> chunks1,
         current_messages |-> Append(msgs1, message),
         current_chars |-> chars1 + msg_len + 1]

\* chunk without the flush of lines 42-43
ChunkFlush_Missing(st) == st.chunks

\* the flush after the loop (lines 42-43)
ChunkFlush(st) ==
    IF st.current_messages # <<>>
    THEN Append(st.chunks, st.current_messages)
    ELSE st.chunks

\* needs_chunking leaving the newlines between the messages out of the count
NeedsChunking_NoSeparators(msgs, maxc) == Len(ToText(msgs)) - (Len(msgs) - 1) > maxc

\* needs_chunking comparing with >= instead of >
NeedsChunking_AtLeast(msgs, maxc) == Len(ToText(msgs)) >= maxc

\* ConversationChunker.needs_chunking
NeedsChunking(msgs, maxc) == Len(ToText(msgs)) > maxc

-----------------------------------------------------------------------------
(* models/message.py: the filters; analyzer/filters.py *)

UpperLetters == Chars("ABCDEFGHIJKLMNOPQRSTUVWXYZ")

LowerLetters == Chars("abcdefghijklmnopqrstuvwxyz")

\* str.lower on one character
LowerChar(c) ==
    IF \E i \in 1..26 : UpperLetters[i] = c
    THEN LowerLetters[CHOOSE i \in 1..26 : UpperLetters[i] = c]
    ELSE c

\* str.lower (the concatenation makes the result a tuple computed once)
Lower(s) == [i \in 1..Len(s) |-> LowerChar(s[i])] \o <<>>

\* a < b on naive datetimes: year, month, day, hour, minute, second in turn
TsLess(a, b) ==
    LET ka == <<a.year, a.month, a.day, a.hour, a.minute, a.second>>
        kb == <<b.year, b.month, b.day, b.hour, b.minute, b.second>>
    IN  \E i \in 1..6 : ka[i] < kb[i] /\ \A k \in 1..(i - 1) : ka[k] = kb[k]

\* the order-keeping list comprehension [m for m in msgs if keep(m)]
RECURSIVE SelectMessages(_, _)
SelectMessages(msgs, keep) ==
    IF msgs = <<>> THEN <<>>
    ELSE IF Head(msgs) \in keep
         THEN <<Head(msgs)>> \o SelectMessages(Tail(msgs), keep)
         ELSE SelectMessages(Tail(msgs), keep)

\* the elements of a list
Elems(seq) == { seq[i] : i \in 1..Len(seq) }

\* filter_by_participant comparing the sender without .lower()
FilterByParticipant_CaseSensitive(msgs, participant) ==
    SelectMessages(msgs,
        { m \in Elems(msgs) : m.sender = participant \/ m.is_system })

\* Conversation.filter_by_participant
FilterByParticipant(msgs, participant) ==
    SelectMessages(msgs,
        { m \in Elems(msgs) :
            Lower(m.sender) = Lower(participant) \/ m.is_system })

\* filter_by_date_range with "<=" and ">=" for "<" and ">" (exclusive bounds)
FilterByDateRange_Exclusive(msgs, start, end) ==
    SelectMessages(msgs,
        { m \in Elems(msgs) :
            /\ ~(start # None /\ ~TsLess(start, m.timestamp))
            /\ ~(end # None /\ ~TsLess(m.timestamp, end)) })

\* Conversation.filter_by_date_range: a message is skipped ("continue") when
\* start is truthy and timestamp < start, or end is truthy and timestamp > end;
\* a datetime is always truthy, None is not
FilterByDateRange(msgs, start, end) ==
    SelectMessages(msgs,
        { m \in Elems(msgs) :
            /\ ~(start # None /\ TsLess(m.timestamp, start))
            /\ ~(end # None /\ TsLess(end, m.timestamp)) })

\* "if participant:" -- None and "" are falsy
TruthyStr(x) == x # NoneStr /\ x # <<>>

\* analyzer/filters.py apply_filters
ApplyFilters(msgs, participant, start_date, end_date) ==
    LET r1 == IF start_date # None \/ end_date # None
              THEN FilterByDateRange(msgs, start_date, end_date)
              ELSE msgs
    IN  IF TruthyStr(participant) THEN FilterByParticipant(r1, participant) ELSE r1

-----------------------------------------------------------------------------
(* parsers/text_parser.py: characters and regular expressions *)

\* the invisible marks of _UNICODE_JUNK, each one character
LRM == "u200e"
RLM == "u200f"
LRE == "u202a"
RLE == "u202b"
PDF == "u202c"
ZWSP == "u200b"
ZWJ == "u200d"
BOM == "ufeff"

UnicodeJunk == {LRM, RLM, LRE, RLE, PDF, ZWSP, ZWJ, BOM}

\* the characters of \s and of str.strip() that occur in the model's texts
WhiteSpace == {" ", "\t", "\n"}

\* [-–—]: hyphen-minus, en dash (u2013), em dash (u2014)
Dashes == {"-", "u2013", "u2014"}

SetMin(S) == CHOOSE x \in S : \A y \in S : x <= y

SetMax(S) == CHOOSE x \in S : \A y \in S : x >= y

\* s[i:] with i a 1-based position
From(s, i) == SubSeq(s, i, Len(s))

\* the character at 1-based position i, "" past the end
At(s, i) == IF i >= 1 /\ i <= Len(s) THEN s[i] ELSE ""

RECURSIVE Run(_, _, _)
\* how many characters of class C follow from position i (a greedy C*)
Run(s, i, C) ==
    IF i >= 1 /\ i <= Len(s) /\ s[i] \in C THEN 1 + Run(s, i + 1, C) ELSE 0

\* the first position from i on that holds character c, 0 when none does
Find(s, c, i) ==
    IF \E k \in i..Len(s) : s[k] = c
    THEN CHOOSE k \in i..Len(s) : s[k] = c /\ \A j \in i..(k - 1) : s[j] # c
    ELSE 0

\* _UNICODE_JUNK.sub("", s)
RemoveJunk(s) == SelectSeq(s, LAMBDA c : c \notin UnicodeJunk)

RECURSIVE RStrip(_)
\* str.rstrip()
RStrip(s) ==
    IF s # <<>> /\ s[Len(s)] \in WhiteSpace THEN RStrip(SubSeq(s, 1, Len(s) - 1)) ELSE s

\* str.strip()
Strip(s) == RStrip(From(s, 1 + Run(s, 1, WhiteSpace)))

\* needle in hay
Contains(hay, needle) ==
    \/ needle = <<>>
    \/ \E i \in 1..(Len(hay) - Len(needle) + 1) :
          hay[i] = needle[1] /\ SubSeq(hay, i, i + Len(needle) - 1) = needle

RECURSIVE NumVal(_)
\* int() of a run of digits
NumVal(ds) ==
    IF ds = <<>> THEN 0
    ELSE 10 * NumVal(SubSeq(ds, 1, Len(ds) - 1))
           + (CHOOSE d \in 0..9 : DigitChar(d) = ds[Len(ds)])

(* Each fragment below takes the position of the next character to read and
   gives the position after its match, or 0 when it does not match.  Every
   digit group of the patterns is followed by a non-digit and every optional
   group by a character the group cannot start with, so the greedy choice is
   the only one that can lead to a match. *)

\* \d{1,2}/\d{1,2}/\d{2,4}
ReDate(s, i) ==
    LET n1 == Run(s, i, Digits)
        j == i + n1 + 1
        n2 == Run(s, j, Digits)
        k == j + n2 + 1
        n3 == Run(s, k, Digits)
    IN  IF /\ n1 \in 1..2 /\ At(s, i + n1) = "/"
           /\ n2 \in 1..2 /\ At(s, j + n2) = "/"
           /\ n3 >= 2
        THEN k + (IF n3 > 4 THEN 4 ELSE n3)
        ELSE 0

\* \d{1,2}:\d{2}(?::\d{2})?
ReTime(s, i) ==
    LET n1 == Run(s, i, Digits)
        j == i + n1 + 1
        after == j + 2
    IN  IF n1 \in 1..2 /\ At(s, i + n1) = ":" /\ Run(s, j, Digits) >= 2
        THEN IF At(s, after) = ":" /\ Run(s, after + 1, Digits) >= 2
             THEN after + 3
             ELSE after
        ELSE 0

\* (?:\s*[APap][Mm])?
ReAmPmOptional(s, i) ==
    LET w == Run(s, i, WhiteSpace)
    IN  IF At(s, i + w) \in {"A", "P", "a", "p"} /\ At(s, i + w + 1) \in {"M", "m"}
        THEN i + w + 2
        ELSE i

\* \s*[APap][Mm]?
ReAmPmLoose(s, i) ==
    LET w == Run(s, i, WhiteSpace)
    IN  IF At(s, i + w) \in {"A", "P", "a", "p"}
        THEN IF At(s, i + w + 1) \in {"M", "m"} THEN i + w + 2 ELSE i + w + 1
        ELSE 0

\* \s+
ReSpaces(s, i) == IF Run(s, i, WhiteSpace) >= 1 THEN i + Run(s, i, WhiteSpace) ELSE 0

\* \s+[-–—]\s+
ReDashSeparator(s, i) ==
    LET d == ReSpaces(s, i)
    IN  IF d # 0 /\ At(s, d) \in Dashes THEN ReSpaces(s, d + 1) ELSE 0

\* one piece of a pattern from position i: a named fragment, or the one
\* character the piece stands for
Fragment(f, s, i) ==
    CASE f = "date" -> ReDate(s, i)
      [] f = "time" -> ReTime(s, i)
      [] f = "ampm?" -> ReAmPmOptional(s, i)
      [] f = "ampm" -> ReAmPmLoose(s, i)
      [] f = "\\s+" -> ReSpaces(s, i)
      [] f = "\\s+dash\\s+" -> ReDashSeparator(s, i)
      [] OTHER -> IF At(s, i) = f THEN i + 1 ELSE 0

\* the end position e of a piece put before the ends r of the pieces after it
PrependEnd(e, r) == IF r = <<0>> THEN <<0>> ELSE <<e>> \o r

RECURSIVE MatchPieces(_, _, _)
RECURSIVE MatchRest(_, _, _)
\* the pieces of a pattern matched one after the other from position i: the
\* position after each piece, or <<0>> when one does not match
MatchPieces(pieces, s, i) ==
    IF pieces = <<>> THEN <<>>
    ELSE MatchRest(Tail(pieces), s, Fragment(Head(pieces), s, i))

\* the pieces that follow a piece that ended at e (0: it did not match)
MatchRest(pieces, s, e) ==
    IF e = 0 THEN <<0>> ELSE PrependEnd(e, MatchPieces(pieces, s, e))

\* _PATTERNS: the pieces of each pattern after its ^, and the pieces that
\* open and close its groups 1 and 2 (a group runs from the end of the piece
\* before it to the end of its last piece)
Patterns ==
    << \* \[(time(?:\s*[APap][Mm])?),\s+(date)\]\s+
       [pieces |-> <<"[", "time", "ampm?", ",", "\\s+", "date", "]", "\\s+">>,
        g1 |-> <<1, 3>>, g2 |-> <<5, 6>>],
       \* \[(date),\s+(time(?:\s*[APap][Mm])?)\]\s+
       [pieces |-> <<"[", "date", ",", "\\s+", "time", "ampm?", "]", "\\s+">>,
        g1 |-> <<1, 2>>, g2 |-> <<4, 6>>],
       \* (date),\s+(time\s*[APap][Mm]?)\s+[-–—]\s+
       [pieces |-> <<"date", ",", "\\s+", "time", "ampm", "\\s+dash\\s+">>,
        g1 |-> <<0, 1>>, g2 |-> <<3, 5>>],
       \* (date),\s+(time)\s+[-–—]\s+
       [pieces |-> <<"date", ",", "\\s+", "time", "\\s+dash\\s+">>,
        g1 |-> <<0, 1>>, g2 |-> <<3, 4>>] >>

\* len(_PATTERNS)
NumPatterns == Len(Patterns)

NoMatch == [matched |-> FALSE]

\* _PATTERNS[k - 1] tried from position i of s; a match gives match.end() as
\* the position after it, and its groups 1 and 2
\* ends: position i and the position after each piece
MatchObject(k, s, ends) ==
    IF ends[Len(ends)] = 0 THEN NoMatch
    ELSE [matched |-> TRUE,
          pattern |-> k,
          end |-> ends[Len(ends)],
          g1 |-> SubSeq(s, ends[Patterns[k].g1[1] + 1], ends[Patterns[k].g1[2] + 1] - 1),
          g2 |-> SubSeq(s, ends[Patterns[k].g2[1] + 1], ends[Patterns[k].g2[2] + 1] - 1)]

PatternAt(k, s, i) == MatchObject(k, s, <<i>> \o MatchPieces(Patterns[k].pieces, s, i))

\* pattern.match(s): every pattern starts with ^
PatternMatch(k, s) == PatternAt(k, s, 1)

\* pattern.search(s): the patterns are compiled without re.MULTILINE, so ^
\* holds at the start of the string only and search finds what match finds
PatternSearch(k, s) == PatternAt(k, s, 1)

-----------------------------------------------------------------------------
(* parsers/text_parser.py: timestamps *)

\* _DATE_FORMATS, each format as the list of its directives and literals
DateFormats ==
    << <<"%d", "/", "%m", "/", "%Y", ",", " ", "%H", ":", "%M">>,
       <<"%d", "/", "%m", "/", "%Y", ",", " ", "%H", ":", "%M", ":", "%S">>,
       <<"%m", "/", "%d", "/", "%Y", ",", " ", "%I", ":", "%M", " ", "%p">>,
       <<"%m", "/", "%d", "/", "%Y", ",", " ", "%I", ":", "%M", ":", "%S", " ", "%p">>,
       <<"%d", "/", "%m", "/", "%y", ",", " ", "%H", ":", "%M">>,
       <<"%d", "/", "%m", "/", "%y", ",", " ", "%H", ":", "%M", ":", "%S">>,
       <<"%m", "/", "%d", "/", "%y", ",", " ", "%I", ":", "%M", " ", "%p">>,
       <<"%m", "/", "%d", "/", "%y", ",", " ", "%I", ":", "%M", ":", "%S", " ", "%p">>,
       <<"%d", "/", "%m", "/", "%Y", ",", " ", "%I", ":", "%M", " ", "%p">>,
       <<"%d", "/", "%m", "/", "%Y", ",", " ", "%I", ":", "%M", ":", "%S", " ", "%p">> >>

NumericDirectives == {"%d", "%m", "%Y", "%y", "%H", "%I", "%M", "%S"}

\* how many digits a numeric directive takes
DirectiveWidth(d) ==
    CASE d = "%Y" -> {4}
      [] d = "%y" -> {2}
      [] OTHER -> {1, 2}

\* the values a numeric directive takes (a second of 60 or 61 passes strptime
\* and is refused by datetime, as is the year 0)
DirectiveRange(d) ==
    CASE d = "%d" -> 1..31
      [] d = "%m" -> 1..12
      [] d = "%Y" -> 1..9999
      [] d = "%y" -> 0..99
      [] d = "%H" -> 0..23
      [] d = "%I" -> 1..12
      [] d = "%M" -> 0..59
      [] d = "%S" -> 0..59

IsLeap(y) == (y % 4 = 0 /\ y % 100 # 0) \/ y % 400 = 0

\* the days of a month, as datetime() checks them
DaysInMonth(y, mo) ==
    IF mo = 2 THEN (IF IsLeap(y) THEN 29 ELSE 28)
    ELSE IF mo \in {4, 6, 9, 11} THEN 30 ELSE 31

\* what strptime has when a format names no such field
NoFields == [d \in NumericDirectives \cup {"%p"} |-> -1]

RECURSIVE StrptimeScan(_, _, _, _)
\* the format matched against s from position i: the fields read, or None.
\* A numeric directive takes the whole run of digits before the literal that
\* follows it; a blank of the format is \s+; %p is am or pm in any case; the
\* whole of s must be consumed ("unconverted data remains" otherwise).
StrptimeScan(s, i, fmt, fields) ==
    IF fmt = <<>> THEN (IF i = Len(s) + 1 THEN fields ELSE None)
    ELSE LET d == Head(fmt)
             n == Run(s, i, Digits)
             w == Run(s, i, WhiteSpace)
             half == Lower(<<At(s, i), At(s, i + 1)>>)
         IN  IF d \in NumericDirectives
             THEN IF n \in DirectiveWidth(d)
                     /\ NumVal(SubSeq(s, i, i + n - 1)) \in DirectiveRange(d)
                  THEN StrptimeScan(s, i + n, Tail(fmt),
                           [fields EXCEPT ![d] = NumVal(SubSeq(s, i, i + n - 1))])
                  ELSE None
             ELSE IF d = "%p"
             THEN IF half \in {Chars("am"), Chars("pm")}
                  THEN StrptimeScan(s, i + 2, Tail(fmt),
                           [fields EXCEPT !["%p"] = IF half = Chars("pm") THEN 1 ELSE 0])
                  ELSE None
             ELSE IF d = " "
             THEN IF w >= 1 THEN StrptimeScan(s, i + w, Tail(fmt), fields) ELSE None
             ELSE IF At(s, i) = d THEN StrptimeScan(s, i + 1, Tail(fmt), fields) ELSE None

\* the datetime of the fields read, None for the ValueError
FieldsToTimestamp(f) ==
    IF f = None THEN None ELSE
    LET year == IF f["%Y"] # -1 THEN f["%Y"]
                ELSE IF f["%y"] <= 68 THEN 2000 + f["%y"] ELSE 1900 + f["%y"]
        hour == IF f["%I"] # -1 THEN (f["%I"] % 12) + 12 * f["%p"] ELSE f["%H"]
        second == IF f["%S"] # -1 THEN f["%S"] ELSE 0
    IN  IF f["%d"] <= DaysInMonth(year, f["%m"])
        THEN Timestamp(year, f["%m"], f["%d"], hour, f["%M"], second)
        ELSE None

\* datetime.strptime(s, fmt), None for the ValueError
Strptime(s, fmt) ==
    FieldsToTimestamp(StrptimeScan(s, 1, fmt, NoFields))

RECURSIVE ParsedOrNext(_, _, _)
RECURSIVE TryFormats(_, _)
\* the for loop of _parse_timestamp over the formats from the k-th on
TryFormats(combined, k) ==
    IF k > Len(DateFormats) THEN None
    ELSE ParsedOrNext(Strptime(combined, DateFormats[k]), combined, k)

\* "return datetime.strptime(...)" / "except ValueError: continue": t is what
\* the k-th format gave, the next format is tried when it raised
ParsedOrNext(t, combined, k) == IF t # None THEN t ELSE TryFormats(combined, k + 1)

\* _parse_timestamp: the first format that parses wins
ParseTimestamp(date_str, time_str) ==
    TryFormats(date_str \o Chars(", ") \o Strip(time_str), 1)

-----------------------------------------------------------------------------
(* parsers/text_parser.py: messages *)

\* _SYSTEM_INDICATORS
SystemIndicators ==
    { Chars("messages and calls are end-to-end encrypted"),
      Chars("created group"),
      Chars("added you"),
      Chars("added "),
      Chars("removed "),
      Chars("left"),
      Chars("changed the subject"),
      Chars("changed this group"),
      Chars("changed the group"),
      Chars("you were added"),
      Chars("security code changed"),
      Chars("joined using this group") }

\* _MEDIA_INDICATOR
MediaIndicator == Chars("<media omitted>")

\* "any(indicator in lower for indicator in _SYSTEM_INDICATORS)"
AnyIndicatorIn(lower) == \E indicator \in SystemIndicators : Contains(lower, indicator)

\* _is_system_message
IsSystemMessage(content) == AnyIndicatorIn(Lower(content))

\* re.match(r"^([^:]+?):\s(.*)", rest, re.DOTALL): the position of the colon
\* that ends group 1, 0 when there is no match.  [^:]+? cannot pass a colon,
\* so only the first colon of rest can end it; it needs a character before it
\* and a whitespace character after it.
SenderColon(rest) ==
    IF Find(rest, ":", 1) >= 2 /\ At(rest, Find(rest, ":", 1) + 1) \in WhiteSpace
    THEN Find(rest, ":", 1)
    ELSE 0

\* lines 185-211 with the sender-less remainder classified like a sent one
BuildMessage_ClassifiesSenderless(timestamp, rest) ==
    LET c == SenderColon(rest)
        content == Strip(From(rest, c + 2))
    IN  IF c # 0
        THEN ChatMessage(timestamp, Strip(SubSeq(rest, 1, c - 1)), content,
                         IsSystemMessage(content),
                         Contains(Lower(content), MediaIndicator))
        ELSE ChatMessage(timestamp, Chars("System"), Strip(rest),
                         IsSystemMessage(Strip(rest)), FALSE)

\* _extract_message, lines 185-211: the message of a parsed timestamp and
\* the rest of the line
BuildMessage(timestamp, rest) ==
    LET c == SenderColon(rest)
        content == Strip(From(rest, c + 2))
    IN  IF c # 0
        THEN ChatMessage(timestamp, Strip(SubSeq(rest, 1, c - 1)), content,
                         IsSystemMessage(content),
                         Contains(Lower(content), MediaIndicator))
        ELSE ChatMessage(timestamp, Chars("System"), Strip(rest), TRUE, FALSE)

\* _extract_message without "if timestamp is None: return None"
MessageIfTimestamp_Unchecked(timestamp, rest) == BuildMessage(timestamp, rest)

\* lines 182-185
MessageIfTimestamp(timestamp, rest) ==
    IF timestamp = None THEN None ELSE BuildMessage(timestamp, rest)

\* _extract_message: k is the pattern that matched, m its match; for the
\* time-first pattern the groups are swapped
ExtractMessage(m, line, k) ==
    MessageIfTimestamp(
        IF k = 1 THEN ParseTimestamp(m.g2, m.g1) ELSE ParseTimestamp(m.g1, m.g2),
        From(line, m.end))

\* _clean_line
CleanLine(line) == Strip(RemoveJunk(line))

RECURSIVE FirstMatch(_, _)
RECURSIVE MatchOrNext(_, _, _)
\* "for pattern in _PATTERNS: match = pattern.match(line); if match: ..." from
\* the k-th pattern on: the first match, NoMatch when no pattern matches
FirstMatch(line, k) ==
    IF k > NumPatterns THEN NoMatch ELSE MatchOrNext(PatternMatch(k, line), line, k)

\* "if match: return ...": m is what the k-th pattern gave, the next pattern
\* is tried when it is no match
MatchOrNext(m, line, k) == IF m.matched THEN m ELSE FirstMatch(line, k + 1)

\* "if match: return self._extract_message(match, line, pattern)", else None
ExtractIfMatched(m, line) ==
    IF m.matched THEN ExtractMessage(m, line, m.pattern) ELSE None

\* _try_parse_line after _clean_line: the first pattern that matches
\* decides; when its timestamp does not parse the line is no message (no
\* later pattern is tried)
ParseCleanLine(line) ==
    IF line = <<>> THEN None ELSE ExtractIfMatched(FirstMatch(line, 1), line)

\* _try_parse_line
TryParseLine(raw) == ParseCleanLine(CleanLine(raw))

RECURSIVE Split(_, _)
\* str.split(sep) for a one-character sep
Split(s, sep) ==
    IF Find(s, sep, 1) = 0 THEN <<s>>
    ELSE <<SubSeq(s, 1, Find(s, sep, 1) - 1)>> \o Split(From(s, Find(s, sep, 1) + 1), sep)

\* the loop body appending a continuation line without the "\n"
ParseLoopBody_NoNewline(st, line) ==
    LET parsed == TryParseLine(line)
    IN  IF parsed # None
        THEN [messages |-> IF st.current_msg # None
                           THEN Append(st.messages, st.current_msg)
                           ELSE st.messages,
              current_msg |-> parsed]
        ELSE IF st.current_msg # None
        THEN [messages |-> st.messages,
              current_msg |-> [st.current_msg EXCEPT
                                 !.content = st.current_msg.content \o line]]
        ELSE st

\* the body of the for loop of parse_text (lines 118-126) on one line, from
\* the loop's locals to the loop's locals
ParseLoopBody(st, line) ==
    LET parsed == TryParseLine(line)
    IN  IF parsed # None
        THEN [messages |-> IF st.current_msg # None
                           THEN Append(st.messages, st.current_msg)
                           ELSE st.messages,
              current_msg |-> parsed]
        ELSE IF st.current_msg # None
        THEN [messages |-> st.messages,
              current_msg |-> [st.current_msg EXCEPT
                                 !.content = st.current_msg.content \o <<"\n">> \o line]]
        ELSE st

\* lines 128-131
ParseFlush(st) ==
    IF st.current_msg # None THEN Append(st.messages, st.current_msg) ELSE st.messages

RECURSIVE ParseLines(_, _)
\* the for loop of parse_text over the lines ls, from the loop's locals st
ParseLines(st, ls) ==
    IF ls = <<>> THEN st ELSE ParseLines(ParseLoopBody(st, Head(ls)), Tail(ls))

\* parse_text(t): the messages of the Conversation returned
ParseText(t) ==
    ParseFlush(ParseLines([messages |-> <<>>, current_msg |-> None], Split(t, "\n")))

-----------------------------------------------------------------------------
(* parsers/*.py: can_handle;  analyzer/core.py: ChatAnalyzer.parse *)

RECURSIVE FindLast(_, _, _)
\* the last position up to i that holds character c, 0 when none does
FindLast(s, c, i) ==
    IF i < 1 THEN 0 ELSE IF s[i] = c THEN i ELSE FindLast(s, c, i - 1)

RECURSIVE RStripSlash(_)
\* Path(source) drops the slashes that end a path
RStripSlash(p) ==
    IF Len(p) > 1 /\ p[Len(p)] = "/" THEN RStripSlash(SubSeq(p, 1, Len(p) - 1)) ELSE p

\* Path(source).name: the final component
PathName(p) == From(RStripSlash(p), FindLast(RStripSlash(p), "/", Len(RStripSlash(p))) + 1)

\* the suffix of a final component: from its last dot on, when that dot
\* neither starts nor ends it
NameSuffix(name, dot) == IF dot > 1 /\ dot < Len(name) THEN From(name, dot) ELSE <<>>

\* Path(source).suffix
Suffix(p) == NameSuffix(PathName(p), FindLast(PathName(p), ".", Len(PathName(p))))

\* Path(source).exists()
PathExists(p, fs) == p \in fs

\* _IMAGE_EXTENSIONS
ImageExtensions ==
    { Chars(".png"), Chars(".jpg"), Chars(".jpeg"), Chars(".webp"), Chars(".bmp"),
      Chars(".tiff") }

\* PDFParser.can_handle
PDFCanHandle(src, fs) == Lower(Suffix(src)) = Chars(".pdf") /\ PathExists(src, fs)

\* DocxParser.can_handle
DocxCanHandle(src, fs) == Lower(Suffix(src)) = Chars(".docx") /\ PathExists(src, fs)

\* ImageParser.can_handle
ImageCanHandle(src, fs) == Lower(Suffix(src)) \in ImageExtensions /\ PathExists(src, fs)

\* the 1000 of source[:1000]
ProbeChars == 1000

\* source[:1000]
Probe(src) == SubSeq(src, 1, IF Len(src) < ProbeChars THEN Len(src) ELSE ProbeChars)

\* "for pattern in _PATTERNS: if pattern.search(cleaned): return True"
AnyPatternSearch(cleaned) == \E k \in 1..NumPatterns : PatternSearch(k, cleaned).matched

\* WhatsAppTextParser.can_handle
TextCanHandle(src, fs) ==
    IF Suffix(src) = Chars(".txt") /\ PathExists(src, fs) THEN TRUE
    ELSE AnyPatternSearch(RemoveJunk(Probe(src)))

\* self._parsers, in the order of the list
Parsers == <<"PDFParser", "DocxParser", "ImageParser", "WhatsAppTextParser">>

\* self._parsers[k - 1].can_handle(source)
CanHandle(k, src, fs) ==
    CASE k = 1 -> PDFCanHandle(src, fs)
      [] k = 2 -> DocxCanHandle(src, fs)
      [] k = 3 -> ImageCanHandle(src, fs)
      [] k = 4 -> TextCanHandle(src, fs)

\* what self._parsers[k - 1].parse(source) gives
ParserParse(k, src) == [parser |-> Parsers[k], source |-> src]

NoOutcome == [kind |-> "none"]

\* the ValueError raised after the loop
NoParserError ==
    [kind |-> "raise",
     value |-> [exception |-> "ValueError",
                message |-> "No parser could handle the input. Supported formats: .txt, .pdf, .docx, .png/.jpg (screenshot)"]]

\* what the loop body does with the answer of can_handle
AnalyzerParseAnswer(st, src, answer) ==
    IF answer
    THEN [parser_i |-> st.parser_i,
          asked |-> Append(st.asked, [parser |-> Parsers[st.parser_i], answer |-> TRUE]),
          ran |-> Append(st.ran, Parsers[st.parser_i]),
          outcome |-> [kind |-> "return", value |-> ParserParse(st.parser_i, src)],
          returned |-> TRUE]
    ELSE [parser_i |-> st.parser_i + 1,
          asked |-> Append(st.asked, [parser |-> Parsers[st.parser_i], answer |-> FALSE]),
          ran |-> st.ran,
          outcome |-> st.outcome,
          returned |-> FALSE]

\* the loop body calling parser.parse(source) without returning what it gives
AnalyzerParseBody_NoReturn(st, src, fs) ==
    [AnalyzerParseAnswer(st, src, CanHandle(st.parser_i, src, fs)) EXCEPT
        !.parser_i = st.parser_i + 1, !.returned = FALSE]

\* the body of the for loop of ChatAnalyzer.parse on one parser, from the
\* loop's state to the loop's state; returned: the body left parse
AnalyzerParseBody(st, src, fs) ==
    AnalyzerParseAnswer(st, src, CanHandle(st.parser_i, src, fs))

-----------------------------------------------------------------------------
(* analyzer/core.py: _parse_list and _parse_combined_response *)

\* str.startswith
StartsWith(s, prefix) == Len(s) >= Len(prefix) /\ SubSeq(s, 1, Len(prefix)) = prefix

\* the first position where needle starts in s, 0 when needle is not in s
FindSub(s, needle) ==
    IF Contains(s, needle)
    THEN CHOOSE i \in 1..(Len(s) - Len(needle) + 1) :
            /\ SubSeq(s, i, i + Len(needle) - 1) = needle
            /\ \A j \in 1..(i - 1) : SubSeq(s, j, j + Len(needle) - 1) # needle
    ELSE 0

RECURSIVE RStripChar(_, _)
\* str.rstrip(c)
RStripChar(s, c) ==
    IF s # <<>> /\ s[Len(s)] = c THEN RStripChar(SubSeq(s, 1, Len(s) - 1), c) ELSE s

\* the item a stripped line of a list holds behind its bullet or number,
\* NoneStr for a line that is no item ("continue")
ListItem(line) ==
    IF StartsWith(line, Chars("- ")) THEN From(line, 3)
    ELSE IF StartsWith(line, Chars("* ")) THEN From(line, 3)
    ELSE IF Len(line) > 2 /\ line[1] \in Digits /\ line[2] \in {".", ")"} THEN From(line, 3)
    ELSE IF Len(line) > 3 /\ line[1] \in Digits /\ line[2] \in Digits /\ line[3] \in {".", ")"}
    THEN From(line, 4)
    ELSE NoneStr

\* the items with what item (a ListItem) adds to them
AppendItem(items, item) ==
    IF item = NoneStr \/ Strip(item) = <<>> THEN items ELSE Append(items, Strip(item))

RECURSIVE ParseListLines(_, _)
\* the for loop of _parse_list over the lines ls
ParseListLines(items, ls) ==
    IF ls = <<>> THEN items
    ELSE ParseListLines(AppendItem(items, ListItem(Strip(Head(ls)))), Tail(ls))

\* ChatAnalyzer._parse_list
ParseList(raw) == ParseListLines(<<>>, Split(Strip(raw), "\n"))

\* the keys of sections
SectionNames ==
    { Chars("summary"), Chars("topics"), Chars("action items"), Chars("participants") }

\* sections and current_section before the loop
NoSections == [sections |-> [n \in SectionNames |-> <<>>], current_section |-> NoneStr]

\* one line of the response: a section heading, or text of the current section
SectionLine(st, line, line_lower) ==
    IF line_lower \in SectionNames THEN [st EXCEPT !.current_section = line_lower]
    ELSE IF st.current_section # NoneStr
    THEN [st EXCEPT !.sections =
            [n \in SectionNames |->
                IF n = st.current_section THEN st.sections[n] \o line \o <<"\n">>
                ELSE st.sections[n]]]
    ELSE st

RECURSIVE SectionLines(_, _)
\* the for loop of _parse_combined_response over the lines ls
SectionLines(st, ls) ==
    IF ls = <<>> THEN st
    ELSE SectionLines(SectionLine(st, Head(ls), RStripChar(Lower(Strip(Head(ls))), ":")),
                      Tail(ls))

\* line[2:] for a line that starts with "- "
DropDash(line) == IF StartsWith(line, Chars("- ")) THEN From(line, 3) ELSE line

\* participant_summaries with what one line of the participants section
\* adds: at is where ": " first stands in the line, 0 when it does not
SetSummary(summaries, line, at) ==
    IF at = 0 THEN summaries
    ELSE [n \in (DOMAIN summaries) \cup {Strip(SubSeq(line, 1, at - 1))} |->
            IF n = Strip(SubSeq(line, 1, at - 1)) THEN Strip(From(line, at + 2))
            ELSE summaries[n]]

RECURSIVE ParticipantLines(_, _)
\* the loop over the lines of the participants section
ParticipantLines(summaries, ls) ==
    IF ls = <<>> THEN summaries
    ELSE ParticipantLines(
            SetSummary(summaries, DropDash(Strip(Head(ls))),
                       FindSub(DropDash(Strip(Head(ls))), Chars(": "))),
            Tail(ls))

\* what _parse_combined_response makes of the sections
ResultOfSections(result, sections) ==
    [result EXCEPT
        !.summary = Strip(sections[Chars("summary")]),
        !.topics = ParseList(sections[Chars("topics")]),
        !.action_items = ParseList(sections[Chars("action items")]),
        !.participant_summaries =
            ParticipantLines(result.participant_summaries,
                             Split(Strip(sections[Chars("participants")]), "\n"))]

\* ChatAnalyzer._parse_combined_response
ParseCombinedResponse(raw, result) ==
    ResultOfSections(result, SectionLines(NoSections, Split(raw, "\n")).sections)

-----------------------------------------------------------------------------
(* analyzer/core.py: ChatAnalyzer.analyze *)

\* DEFAULT_MAX_CHARS, the max_chars of the ConversationChunker() of a ChatAnalyzer
DEFAULT_MAX_CHARS == 12000

RECURSIVE ChunkLoop(_, _, _)
\* the for loop of chunk over the messages msgs
ChunkLoop(st, msgs, maxc) ==
    IF msgs = <<>> THEN st
    ELSE ChunkLoop(ChunkLoopBody(st, Head(msgs), maxc), Tail(msgs), maxc)

\* ConversationChunker(max_chars=maxc).chunk: the message lists of the chunks
Chunk(msgs, maxc) ==
    IF msgs = <<>> THEN <<>>
    ELSE ChunkFlush(ChunkLoop([chunks |-> <<>>, current_messages |-> <<>>,
                               current_chars |-> 0], msgs, maxc))

\* WhatsAppTextParser._read_source: the text of an existing file, else the
\* source itself
ReadSource(src, contents) == IF src \in DOMAIN contents THEN contents[src] ELSE src

RECURSIVE AnalyzerParseLoop(_, _, _)
\* the for loop of ChatAnalyzer.parse and the raise behind it: what parse gives
AnalyzerParseLoop(st, src, fs) ==
    IF st.returned THEN st.outcome
    ELSE IF st.parser_i > Len(Parsers) THEN NoParserError
    ELSE AnalyzerParseLoop(AnalyzerParseBody(st, src, fs), src, fs)

\* ChatAnalyzer.parse
AnalyzerParse(src, fs) ==
    AnalyzerParseLoop([parser_i |-> 1, asked |-> <<>>, ran |-> <<>>, outcome |-> NoOutcome,
                       returned |-> FALSE], src, fs)

\* the messages of the Conversation parser.parse(source) returns: the text
\* parser reads its source, the other parsers hand the text they extract
\* from the file to parse_text
ConversationOf(value, contents) ==
    IF value.parser = "WhatsAppTextParser"
    THEN ParseText(ReadSource(value.source, contents))
    ELSE ParseText(contents[value.source])

\* AnalysisResult()
EmptyResult ==
    [summary |-> <<>>, topics |-> <<>>, action_items |-> <<>>,
     participant_summaries |-> <<>>, message_count |-> 0, participant_count |-> 0,
     date_range |-> <<>>]

\* Conversation.participants, as a set
Participants(msgs) == { msgs[k].sender : k \in { j \in 1..Len(msgs) : ~msgs[j].is_system } }

\* f"{ts:%Y-%m-%d}"
FormatDate(ts) == Pad4(ts.year) \o <<"-">> \o Pad2(ts.month) \o <<"-">> \o Pad2(ts.day)

\* lines 84-91 counting the senders of system messages too
Metadata_AllSenders(msgs) ==
    [EmptyResult EXCEPT
        !.message_count = Len(msgs),
        !.participant_count = Cardinality({ msgs[k].sender : k \in 1..Len(msgs) }),
        !.date_range = FormatDate(msgs[1].timestamp) \o Chars(" to ")
                          \o FormatDate(msgs[Len(msgs)].timestamp)]

\* lines 84-91: the result with its metadata, for a non-empty filtered
Metadata(msgs) ==
    [EmptyResult EXCEPT
        !.message_count = Len(msgs),
        !.participant_count = Cardinality(Participants(msgs)),
        !.date_range = FormatDate(msgs[1].timestamp) \o Chars(" to ")
                          \o FormatDate(msgs[Len(msgs)].timestamp)]

\* "return AnalysisResult(summary=...)"
SummaryOnly(summary) ==
    [kind |-> "return", value |-> [EmptyResult EXCEPT !.summary = Chars(summary)]]

\* analyze left before any generate call
LeftEarly(out, conv) ==
    [outcome |-> out, conversation |-> conv, filtered |-> <<>>, chunks |-> <<>>,
     result |-> EmptyResult]

\* lines 83-94 with the metadata and the chunks
Prepared(conv, kept) ==
    [outcome |-> NoOutcome, conversation |-> conv, filtered |-> kept,
     chunks |-> Chunk(kept, DEFAULT_MAX_CHARS), result |-> Metadata(kept)]

\* lines 80-94 without the return for an empty filtered conversation
AfterFilters_NoEmptyReturn(conv, kept) ==
    [outcome |-> NoOutcome, conversation |-> conv, filtered |-> kept,
     chunks |-> Chunk(kept, DEFAULT_MAX_CHARS), result |-> EmptyResult]

\* lines 80-94
AfterFilters(conv, kept) ==
    IF kept = <<>>
    THEN LeftEarly(SummaryOnly("No messages match the given filters."), conv)
    ELSE Prepared(conv, kept)

\* lines 69-94
AfterParse(conv, participant, start_date, end_date) ==
    IF conv = <<>>
    THEN LeftEarly(SummaryOnly("No messages found in the input."), conv)
    ELSE AfterFilters(conv, ApplyFilters(conv, participant, start_date, end_date))

\* lines 67-94: parsed is what self.parse(source) gave
AfterParseCall(parsed, contents, participant, start_date, end_date) ==
    IF parsed.kind = "raise" THEN LeftEarly(parsed, <<>>)
    ELSE AfterParse(ConversationOf(parsed.value, contents), participant, start_date,
                    end_date)

\* lines 67-94 of analyze: up to the first generate call
AnalyzeSetup(src, contents, participant, start_date, end_date) ==
    AfterParseCall(AnalyzerParse(src, DOMAIN contents), contents, participant, start_date,
                   end_date)

\* lines 97-100 without the test of len(chunks): always _analyze_combined
FirstCall_AlwaysCombined(n) == "ANALYZE_ALL"

\* the generate call that is first for n chunks (lines 97-100, 131, 148)
FirstCall(n) == IF n = 1 THEN "ANALYZE_ALL" ELSE IF n = 0 THEN "MERGE_SUMMARIES" ELSE "SUMMARIZE"

\* the templates formatted with the text of one chunk
ChunkTemplates == {"ANALYZE_ALL", "SUMMARIZE", "EXTRACT_TOPICS", "EXTRACT_ACTION_ITEMS"}

\* what fills a merge template: the partial results joined
MergeInput(st) ==
    CASE st.apc = "MERGE_SUMMARIES" -> JoinWith(st.partial.summaries, Chars("\n\n---\n\n"))
      [] st.apc = "MERGE_TOPICS" -> JoinWith(st.partial.topics, Chars("\n"))
      [] st.apc = "MERGE_ACTION_ITEMS" -> JoinWith(st.partial.actions, Chars("\n"))
      [] OTHER -> <<>>

\* the prompt of the call that is next: its template, the chunk whose text
\* fills it (0 for a merge prompt) and the partial results that fill it
\* (none for the prompt of a chunk)
Prompt(st) ==
    [template |-> st.apc,
     chunk |-> IF st.apc \in ChunkTemplates THEN st.i ELSE 0,
     merged |-> MergeInput(st)]

\* "partial_....append(...)" putting the new result first
AddPartial_First(partials, raw) == <<raw>> \o partials

\* "partial_summaries.append(...)", and the same for topics and actions
AddPartial(partials, raw) == Append(partials, raw)

\* OllamaClient.generate: "raise RuntimeError(...) from e"
GenerateError ==
    [kind |-> "raise",
     value |-> [exception |-> "RuntimeError",
                message |-> "Failed to generate response from Ollama"]]

\* the locals of analyze after the generate call that is next returned raw
AfterReply(st, raw) ==
    CASE st.apc = "ANALYZE_ALL" ->
           [st EXCEPT !.result = ParseCombinedResponse(raw, st.result),
                      !.outcome = [kind |-> "return",
                                   value |-> ParseCombinedResponse(raw, st.result)],
                      !.apc = "done"]
      [] st.apc = "SUMMARIZE" ->
           [st EXCEPT !.partial.summaries = AddPartial(st.partial.summaries, raw),
                      !.apc = "EXTRACT_TOPICS"]
      [] st.apc = "EXTRACT_TOPICS" ->
           [st EXCEPT !.partial.topics = AddPartial(st.partial.topics, raw),
                      !.apc = "EXTRACT_ACTION_ITEMS"]
      [] st.apc = "EXTRACT_ACTION_ITEMS" ->
           [st EXCEPT !.partial.actions = AddPartial(st.partial.actions, raw),
                      !.i = st.i + 1,
                      !.apc = IF st.i + 1 > st.nchunks THEN "MERGE_SUMMARIES" ELSE "SUMMARIZE"]
      [] st.apc = "MERGE_SUMMARIES" ->
           [st EXCEPT !.result.summary = raw, !.apc = "MERGE_TOPICS"]
      [] st.apc = "MERGE_TOPICS" ->
           [st EXCEPT !.result.topics = ParseList(raw), !.apc = "MERGE_ACTION_ITEMS"]
      [] st.apc = "MERGE_ACTION_ITEMS" ->
           [st EXCEPT !.result.action_items = ParseList(raw),
                      !.outcome = [kind |-> "return",
                                   value |-> [st.result EXCEPT
                                                !.action_items = ParseList(raw)]],
                      !.apc = "done"]

\* the RuntimeError of generate leaving analyze
AfterError(st) == [st EXCEPT !.outcome = GenerateError, !.apc = "done"]

\* a failed generate call taken for an empty response
AfterGenerate_SwallowsError(st, reply) ==
    AfterReply(st, IF reply.ok THEN reply.text ELSE <<>>)

\* the locals of analyze after the generate call that is next: reply is
\* what generate gave, a text or the RuntimeError
AfterGenerate(st, reply) ==
    IF reply.ok THEN AfterReply(st, reply.text) ELSE AfterError(st)

-----------------------------------------------------------------------------
(* Conversation objects: what the filters and the chunker take and return.
   An object is a position of the heap; the heap holds its messages. *)

\* self.filter_by_participant(participant): "return Conversation(messages=filtered)"
HeapFilterByParticipant(hp, self, participant) ==
    [heap |-> Append(hp, FilterByParticipant(hp[self], participant)),
     returned |-> <<Len(hp) + 1>>]

\* self.filter_by_date_range(start, end): "return Conversation(messages=filtered)"
HeapFilterByDateRange(hp, self, start, end) ==
    [heap |-> Append(hp, FilterByDateRange(hp[self], start, end)),
     returned |-> <<Len(hp) + 1>>]

\* apply_filters from "if participant:" on: made is the heap and the object
\* result names after the date filter
HeapApplyParticipant(made, participant) ==
    IF TruthyStr(participant)
    THEN HeapFilterByParticipant(made.heap, made.returned[1], participant)
    ELSE made

\* apply_filters(conversation, participant, start_date, end_date):
\* "result = conversation" and a filter call for each filter asked for
HeapApplyFilters(hp, conv, participant, start_date, end_date) ==
    HeapApplyParticipant(
        IF start_date # None \/ end_date # None
        THEN HeapFilterByDateRange(hp, conv, start_date, end_date)
        ELSE [heap |-> hp, returned |-> <<conv>>],
        participant)

\* ConversationChunker(maxc).chunk(conv): a new Conversation with a new list
\* for each chunk
HeapChunk(hp, conv, maxc) ==
    [heap |-> hp \o Chunk(hp[conv], maxc),
     returned |-> [k \in 1..Len(Chunk(hp[conv], maxc)) |-> Len(hp) + k]]

-----------------------------------------------------------------------------
(* parsers/image_parser.py: ImageParser.parse *)

\* "text = ....strip(); if text: return text", and "return None" behind it
StrippedOrNone(raw) == IF Strip(raw) # <<>> THEN Strip(raw) ELSE None

\* _try_llava: the stripped "response" of the vision model, "" standing in
\* for a response without that key; None when it is empty or anything raised
TryLlava(vision) ==
    IF vision.kind = "raise" THEN None
    ELSE StrippedOrNone(IF vision.kind = "keyless" THEN <<>> ELSE vision.response)

\* _try_ocr: the stripped text of pytesseract; None when it is empty or
\* anything raised
TryOcr(ocr) == IF ocr.kind = "raise" THEN None ELSE StrippedOrNone(ocr.text)

\* "if not text:" running the OCR whatever the vision model gave
NoText_Always(extracted) == TRUE

\* "if not text:"
NoText(extracted) == extracted = None \/ extracted = <<>>

\* lines 47-50: what parse returns for the text extracted, and the text it
\* hands to parse_text
ImageResult(extracted) ==
    IF NoText(extracted)
    THEN [handed |-> None, outcome |-> [kind |-> "return", value |-> <<>>]]
    ELSE [handed |-> extracted,
          outcome |-> [kind |-> "return", value |-> ParseText(extracted)]]

-----------------------------------------------------------------------------
(* backend/main.py: the upload endpoints *)

\* the characters of s at the positions ps are all digits
DigitsAt(s, ps) == \A i \in ps : s[i] \in Digits

\* datetime.fromisoformat(s) for a string without a time part, written
\* YYYY-MM-DD: its datetime at midnight, None for the ValueError (a string of
\* another shape, a month outside 1..12, a day the month does not have)
FromIsoFormat(s) ==
    IF /\ Len(s) = 10
       /\ DigitsAt(s, {1, 2, 3, 4, 6, 7, 9, 10})
       /\ s[5] = "-"
       /\ s[8] = "-"
       /\ NumVal(SubSeq(s, 1, 4)) >= 1
       /\ NumVal(SubSeq(s, 6, 7)) \in 1..12
       /\ NumVal(SubSeq(s, 9, 10)) >= 1
       /\ NumVal(SubSeq(s, 9, 10)) <=
              DaysInMonth(NumVal(SubSeq(s, 1, 4)), NumVal(SubSeq(s, 6, 7)))
    THEN Timestamp(NumVal(SubSeq(s, 1, 4)), NumVal(SubSeq(s, 6, 7)),
                   NumVal(SubSeq(s, 9, 10)), 0, 0, 0)
    ELSE None

\* "datetime.fromisoformat(x) if x else None" raises ValueError
FormDateRaises(x) == TruthyStr(x) /\ FromIsoFormat(x) = None

\* "Path(file.filename or "upload.txt").suffix"
UploadSuffix(filename) ==
    Suffix(IF TruthyStr(filename) THEN filename ELSE Chars("upload.txt"))

\* the name NamedTemporaryFile gives the n-th file it makes
TempName(n, suffix) == Chars("/tmp/tmp") \o <<DigitChar(n)>> \o suffix

\* the status of the response for what the analyzer did: the value
\* returned, an HTTPException raised by a handler, or the 500 of an
\* exception no handler takes
ResponseStatus(endpoint, ended) ==
    CASE ended = "return" -> 200
      [] ended = "ValueError" -> 400
      [] ended = "RuntimeError" /\ endpoint = "analyze_file" -> 503
      [] OTHER -> 500

-----------------------------------------------------------------------------
(* The inputs the operations are tried on *)

T1 == Timestamp(2024, 1, 12, 9, 1, 0)
T2 == Timestamp(2024, 1, 12, 9, 2, 0)
T3 == Timestamp(2024, 4, 3, 21, 5, 0)

MsgPool ==
    { ChatMessage(T1, Chars("Alice"), Chars("Hi"), FALSE, FALSE),
      ChatMessage(T2, Chars("ALICE"), Chars("ok\n1. a"), FALSE, FALSE),
      ChatMessage(T2, Chars("Bob"), Chars("<Media omitted>"), FALSE, TRUE),
      ChatMessage(T3, Chars("System"), Chars("x"), TRUE, FALSE),
      ChatMessage(T1, Chars("Bob"), Chars("Bob left"), TRUE, FALSE),
      ChatMessage(T3, Chars("alice"), Chars("see you at the station at noon"), FALSE, FALSE) }

Conversations(n) == UNION { [1..k -> MsgPool] : k \in 0..n }

\* lines of chat text: the export shapes of the tests' samples, lines that
\* continue a message, and lines that look like a message and are none
LinePool ==
    { Chars("12/01/2024, 09:01 - Alice: Hey!"),
      Chars("[12/01/2024, 09:00:15] Alice: Hi"),
      Chars("[21:05, 03/04/2024] Bob: <Media omitted>"),
      Chars("12/01/2024, 09:00 - Alice added Bob"),
      Chars("12/01/2024, 09:07 - <Media omitted>"),
      Chars("03/04/2024, 9:05 PM - Alice: Bob left"),
      <<" ", LRM>> \o Chars("12/01/24, 09:03 - Bob:\tsee a:b "),
      Chars("31/02/2024, 09:00 - Alice: x"),
      <<LRM>> \o Chars("2. Dev <media omitted> ") \o <<BOM>>,
      <<>> }

\* texts of up to n lines
Texts(n) ==
    { JoinWith(ls, <<"\n">>) : ls \in UNION { [1..k -> LinePool] : k \in 0..n } }

\* n invisible marks
JunkPad(n) == [i \in 1..n |-> LRM]

\* paths that may exist
PathPool ==
    { Chars("Chat.PDF"), Chars("notes.docx"), Chars("shot.jpeg"), Chars("chat.txt"),
      Chars("chat.TXT"), Chars("12/01/2024, 09:00 - a.pdf") }

\* sources handed to ChatAnalyzer.parse: paths and raw texts
SourcePool ==
    PathPool \cup
    { Chars("12/01/2024, 09:00 - Alice: Hello"),
      Chars("just some random text"),
      Chars("Chat export\n12/01/2024, 09:00 - Alice: Hello"),
      Chars(" 12/01/2024, 09:00 - Alice: Hello"),
      <<LRM>> \o Chars("[12/01/2024, 09:00:15] Alice: Hi"),
      JunkPad(900) \o Chars("12/01/2024, 09:00 - Alice: Hello"),
      JunkPad(995) \o Chars("12/01/2024, 09:00 - Alice: Hello") }

\* participant arguments
ParticipantPool == { Chars("Alice"), Chars("bob"), Chars("Carol") }

\* start / end arguments
DatePool == { None, T1, T2, T3 }

\* a message text of DEFAULT_MAX_CHARS characters: a chunk of its own
LongContent == [i \in 1..DEFAULT_MAX_CHARS |-> "x"]

\* a chat whose second message is longer than a chunk
TwoChunkChat ==
    Chars("12/01/2024, 09:01 - Alice: Hi\n12/01/2024, 09:02 - Bob: ") \o LongContent

\* the files that exist, each with the text read or extracted from it
AnalyzeFiles ==
    (Chars("chat.txt") :> Chars("12/01/2024, 09:01 - Alice: Hey!\n12/01/2024, 09:02 - Alice: Bye"))
    @@ (Chars("Chat.PDF") :> Chars("Scanned page 1"))
    @@ (Chars("two.txt") :> TwoChunkChat)
    @@ (Chars("three.txt") :> TwoChunkChat \o Chars("\n[21:05, 03/04/2024] alice: ok"))

\* sources handed to ChatAnalyzer.analyze: paths, and raw texts short enough
\* to be asked about as paths
AnalyzeSources ==
    { Chars("chat.txt"), Chars("Chat.PDF"), Chars("notes.txt"),
      Chars("just some random text"),
      Chars("31/02/2024, 09:00 - Alice: x"),
      Chars("12/01/2024, 09:00 - Alice added Bob\n12/01/2024, 09:01 - Alice: Hey!\n[21:05, 03/04/2024] Bob: ok"),
      Chars("two.txt"), Chars("three.txt") }

\* participant arguments of analyze
AnalyzeParticipants == { NoneStr, Chars("alice"), Chars("Carol") }

\* start_date and end_date arguments of analyze
AnalyzeDates == { <<None, None>>, <<T2, None>>, <<None, T1>>, <<T3, T1>> }

\* what generate may return for a prompt of the template
Responses(template) ==
    CASE template = "ANALYZE_ALL" ->
           { Chars("SUMMARY:\nAll fine\nTOPICS:\n- lunch\nACTION ITEMS:\n1. book\nPARTICIPANTS:\n- Alice: busy"),
             Chars("no sections here"), <<>> }
      [] template = "MERGE_TOPICS" -> { Chars("- lunch\n2. trip"), <<>> }
      [] template = "MERGE_ACTION_ITEMS" -> { Chars("* book"), Chars("None") }
      [] template = "SUMMARIZE" -> { Chars("All fine"), Chars("Trip planned") }
      [] OTHER -> { Chars("All fine") }

\* what a generate call may give: a text, or the RuntimeError
Replies(template) ==
    { [ok |-> TRUE, text |-> t] : t \in Responses(template) } \cup { [ok |-> FALSE] }

\* the Conversation objects the calls start from
FrameConversations ==
    { <<>>,
      <<ChatMessage(T1, Chars("Alice"), Chars("Hi"), FALSE, FALSE)>>,
      <<ChatMessage(T1, Chars("Alice"), Chars("Hi"), FALSE, FALSE),
        ChatMessage(T2, Chars("Bob"), Chars("<Media omitted>"), FALSE, TRUE),
        ChatMessage(T3, Chars("System"), Chars("x"), TRUE, FALSE)>> }

\* the arguments of the calls on Conversation objects
FrameParticipants == { NoneStr, Chars("alice") }

FrameDates == { None, T2 }

FrameMaxChars == { 1, MaxMaxChars }

\* what the vision model may do with an image: raise (no ollama, no server,
\* unreadable file), or respond with or without a "response" text
VisionOutcomes ==
    { [kind |-> "raise"], [kind |-> "keyless"] } \cup
    { [kind |-> "response", response |-> t] :
        t \in { <<>>, Chars(" \n"), Chars("Sorry, I cannot read this image."),
                Chars(" 12/01/2024, 09:01 - Alice: Hey!\nsee you\n") } }

\* what the OCR may do with an image: raise, or give a text
OcrOutcomes ==
    { [kind |-> "raise"] } \cup
    { [kind |-> "text", text |-> t] :
        t \in { <<>>, Chars("\n"), Chars("l2/0l/2024, O9:02 - Bob: Hi"),
                Chars("12/01/2024, 09:02 - Bob: Hi\n\n"),
                Chars("[21:05, 03/04/2024] Bob: <Media omitted>") } }

\* the names of uploaded files, None for an upload without one
UploadNames == { NoneStr, Chars("chat.txt"), Chars("Chat.PDF"), Chars("chat") }

\* the start_date and end_date fields of a form, None when not sent
IsoDates ==
    { NoneStr, <<>>, Chars("2024-01-12"), Chars("12/01/2024"),
      Chars("2024-13-01"), Chars("2024-02-30") }

\* what the analyzer may do with the uploaded file
AnalyzerOutcomes == { "return", "ValueError", "RuntimeError", "OSError" }

-----------------------------------------------------------------------------
(* The idle value of each group of variables *)

ChunkIdle ==
    /\ conversation = <<>>
    /\ max_chars = 0
    /\ chunks = <<>>
    /\ current_messages = <<>>
    /\ current_chars = 0
    /\ ci = 0
    /\ cpc = "idle"

NoCall == [op |-> "none", participant |-> NoneStr, start |-> None, end |-> None]

FilterIdle ==
    /\ self_messages = <<>>
    /\ filter_call = NoCall
    /\ filtered = <<>>
    /\ fpc = "idle"

ParseIdle ==
    /\ text = <<>>
    /\ lines = <<>>
    /\ messages = <<>>
    /\ current_msg = None
    /\ li = 0
    /\ ppc = "idle"

DispatchIdle ==
    /\ source = <<>>
    /\ files = {}
    /\ parser_i = 0
    /\ asked = <<>>
    /\ ran = <<>>
    /\ outcome = NoOutcome
    /\ dpc = "idle"

NeedsIdle ==
    /\ needs_result = FALSE
    /\ npc = "idle"

\* partial_summaries, partial_topics, partial_actions before the loop
NoPartial == [summaries |-> <<>>, topics |-> <<>>, actions |-> <<>>]

AnalyzeIdle ==
    /\ an_source = <<>>
    /\ an_files = <<>>
    /\ an_participant = NoneStr
    /\ an_start = None
    /\ an_end = None
    /\ an_conversation = <<>>
    /\ an_filtered = <<>>
    /\ an_chunks = <<>>
    /\ an_result = EmptyResult
    /\ an_partial = NoPartial
    /\ an_i = 0
    /\ llm_calls = <<>>
    /\ an_outcome = NoOutcome
    /\ apc = "idle"

FrameIdle ==
    /\ heap = <<>>
    /\ fr_before = <<>>
    /\ fr_self = 0
    /\ fr_call = "none"
    /\ fr_returned = <<>>
    /\ fr_calls = 0

ImageIdle ==
    /\ img_vision = NoOutcome
    /\ img_ocr = NoOutcome
    /\ img_text = None
    /\ img_tried = <<>>
    /\ img_handed = None
    /\ img_outcome = NoOutcome
    /\ ipc = "idle"

UploadIdle ==
    /\ up_endpoint = "none"
    /\ up_form = <<>>
    /\ up_analyzer = "none"
    /\ tmp_files = {}
    /\ tmp_path = None
    /\ up_response = 0
    /\ upc = "idle"

\* nothing but the operation under study runs
RestIdle == FrameIdle /\ ImageIdle /\ UploadIdle

-----------------------------------------------------------------------------
(* ConversationChunker.chunk as a state machine *)

InitChunk ==
    /\ conversation \in Conversations(MaxMsgs)
    /\ max_chars \in 1..MaxMaxChars
    /\ chunks = <<>>
    /\ current_messages = <<>>
    /\ current_chars = 0
    /\ ci = 0
    /\ cpc = "begin"
    /\ FilterIdle
    /\ ParseIdle
    /\ DispatchIdle
    /\ NeedsIdle
    /\ AnalyzeIdle
    /\ RestIdle

\* lines 23-28
ChunkBegin ==
    /\ cpc = "begin"
    /\ IF conversation = <<>>
       THEN cpc' = "done" /\ ci' = ci
       ELSE cpc' = "loop" /\ ci' = 1
    /\ chunks' = <<>>
    /\ current_messages' = <<>>
    /\ current_chars' = 0
    /\ UNCHANGED <<conversation, max_chars>>
    /\ UNCHANGED notChunkVars

\* lines 30-40: one iteration
ChunkIterate ==
    /\ cpc = "loop"
    /\ ci <= Len(conversation)
    /\ LET st == ChunkLoopBody([chunks |-> chunks,
                                current_messages |-> current_messages,
                                current_chars |-> current_chars],
                               conversation[ci], max_chars)
       IN  /\ chunks' = st.chunks
           /\ current_messages' = st.current_messages
           /\ current_chars' = st.current_chars
    /\ ci' = ci + 1
    /\ UNCHANGED <<conversation, max_chars, cpc>>
    /\ UNCHANGED notChunkVars

\* lines 42-45
ChunkReturn ==
    /\ cpc = "loop"
    /\ ci > Len(conversation)
    /\ chunks' = ChunkFlush([chunks |-> chunks, current_messages |-> current_messages])
    /\ cpc' = "done"
    /\ UNCHANGED <<conversation, max_chars, current_messages, current_chars, ci>>
    /\ UNCHANGED notChunkVars

NextChunk == ChunkBegin \/ ChunkIterate \/ ChunkReturn

SpecChunk == InitChunk /\ [][NextChunk]_vars


-----------------------------------------------------------------------------
(* The filters as a state machine: one call on a drawn Conversation *)

InitFilter ==
    /\ self_messages \in Conversations(MaxFilterMsgs)
    /\ filter_call = NoCall
    /\ filtered = <<>>
    /\ fpc = "ready"
    /\ ChunkIdle
    /\ ParseIdle
    /\ DispatchIdle
    /\ NeedsIdle
    /\ AnalyzeIdle
    /\ RestIdle

CallFilterByParticipant ==
    /\ fpc = "ready"
    /\ \E p \in ParticipantPool :
         /\ filter_call' = [op |-> "filter_by_participant", participant |-> p,
                            start |-> None, end |-> None]
         /\ filtered' = FilterByParticipant(self_messages, p)
    /\ fpc' = "done"
    /\ UNCHANGED self_messages
    /\ UNCHANGED notFilterVars

CallFilterByDateRange ==
    /\ fpc = "ready"
    /\ \E s \in DatePool, e \in DatePool :
         /\ filter_call' = [op |-> "filter_by_date_range", participant |-> NoneStr,
                            start |-> s, end |-> e]
         /\ filtered' = FilterByDateRange(self_messages, s, e)
    /\ fpc' = "done"
    /\ UNCHANGED self_messages
    /\ UNCHANGED notFilterVars

CallApplyFilters ==
    /\ fpc = "ready"
    /\ \E p \in ParticipantPool \cup {NoneStr, <<>>}, s \in DatePool, e \in DatePool :
         /\ filter_call' = [op |-> "apply_filters", participant |-> p,
                            start |-> s, end |-> e]
         /\ filtered' = ApplyFilters(self_messages, p, s, e)
    /\ fpc' = "done"
    /\ UNCHANGED self_messages
    /\ UNCHANGED notFilterVars

NextFilter == CallFilterByParticipant \/ CallFilterByDateRange \/ CallApplyFilters

SpecFilter == InitFilter /\ [][NextFilter]_vars

-----------------------------------------------------------------------------
(* WhatsAppTextParser.parse_text as a state machine *)

InitParse ==
    /\ text \in Texts(MaxLines)
    /\ lines = <<>>
    /\ messages = <<>>
    /\ current_msg = None
    /\ li = 0
    /\ ppc = "begin"
    /\ ChunkIdle
    /\ FilterIdle
    /\ DispatchIdle
    /\ NeedsIdle
    /\ AnalyzeIdle
    /\ RestIdle

\* lines 113-115
ParseTextBegin ==
    /\ ppc = "begin"
    /\ lines' = Split(text, "\n")
    /\ messages' = <<>>
    /\ current_msg' = None
    /\ li' = 1
    /\ ppc' = "loop"
    /\ UNCHANGED text
    /\ UNCHANGED notParseVars

\* lines 117-126: one iteration
ParseTextLine ==
    /\ ppc = "loop"
    /\ li <= Len(lines)
    /\ LET st == ParseLoopBody([messages |-> messages, current_msg |-> current_msg],
                               lines[li])
       IN  /\ messages' = st.messages
           /\ current_msg' = st.current_msg
    /\ li' = li + 1
    /\ UNCHANGED <<text, lines, ppc>>
    /\ UNCHANGED notParseVars

\* lines 128-131
ParseTextReturn ==
    /\ ppc = "loop"
    /\ li > Len(lines)
    /\ messages' = ParseFlush([messages |-> messages, current_msg |-> current_msg])
    /\ ppc' = "done"
    /\ UNCHANGED <<text, lines, current_msg, li>>
    /\ UNCHANGED notParseVars

NextParse == ParseTextBegin \/ ParseTextLine \/ ParseTextReturn

SpecParse == InitParse /\ [][NextParse]_vars

-----------------------------------------------------------------------------
(* ChatAnalyzer.parse as a state machine *)

InitDispatch ==
    /\ source \in SourcePool
    /\ files \in SUBSET PathPool
    /\ parser_i = 1
    /\ asked = <<>>
    /\ ran = <<>>
    /\ outcome = NoOutcome
    /\ dpc = "loop"
    /\ ChunkIdle
    /\ FilterIdle
    /\ ParseIdle
    /\ NeedsIdle
    /\ AnalyzeIdle
    /\ RestIdle

\* lines 49-52: one iteration of the loop over self._parsers
AnalyzerParseStep ==
    /\ dpc = "loop"
    /\ parser_i <= Len(Parsers)
    /\ LET st == AnalyzerParseBody([parser_i |-> parser_i, asked |-> asked, ran |-> ran,
                                    outcome |-> outcome], source, files)
       IN  /\ parser_i' = st.parser_i
           /\ asked' = st.asked
           /\ ran' = st.ran
           /\ outcome' = st.outcome
           /\ dpc' = IF st.returned THEN "done" ELSE "loop"
    /\ UNCHANGED <<source, files>>
    /\ UNCHANGED notDispatchVars

\* lines 54-57: the loop ended without a return
AnalyzerParseRaise ==
    /\ dpc = "loop"
    /\ parser_i > Len(Parsers)
    /\ outcome' = NoParserError
    /\ dpc' = "done"
    /\ UNCHANGED <<source, files, parser_i, asked, ran>>
    /\ UNCHANGED notDispatchVars

NextDispatch == AnalyzerParseStep \/ AnalyzerParseRaise

SpecDispatch == InitDispatch /\ [][NextDispatch]_vars

-----------------------------------------------------------------------------
(* ConversationChunker.needs_chunking as a state machine *)

InitNeeds ==
    /\ conversation \in Conversations(MaxMsgs)
    /\ max_chars \in 1..MaxMaxChars
    /\ chunks = <<>>
    /\ current_messages = <<>>
    /\ current_chars = 0
    /\ ci = 0
    /\ cpc = "idle"
    /\ needs_result = FALSE
    /\ npc = "call"
    /\ FilterIdle
    /\ ParseIdle
    /\ DispatchIdle
    /\ AnalyzeIdle
    /\ RestIdle

\* lines 47-49
NeedsChunkingCall ==
    /\ npc = "call"
    /\ needs_result' = NeedsChunking(conversation, max_chars)
    /\ npc' = "done"
    /\ UNCHANGED notNeedsVars

NextNeeds == NeedsChunkingCall

SpecNeeds == InitNeeds /\ [][NextNeeds]_vars

-----------------------------------------------------------------------------
(* ChatAnalyzer.analyze: the parse, the filters, the chunks, then the
   generate calls one after the other *)

InitAnalyze ==
    /\ an_source \in AnalyzeSources
    /\ an_files = AnalyzeFiles
    /\ an_participant \in AnalyzeParticipants
    /\ \E dates \in AnalyzeDates : an_start = dates[1] /\ an_end = dates[2]
    /\ an_conversation = <<>>
    /\ an_filtered = <<>>
    /\ an_chunks = <<>>
    /\ an_result = EmptyResult
    /\ an_partial = NoPartial
    /\ an_i = 0
    /\ llm_calls = <<>>
    /\ an_outcome = NoOutcome
    /\ apc = "begin"
    /\ ChunkIdle
    /\ FilterIdle
    /\ ParseIdle
    /\ DispatchIdle
    /\ NeedsIdle
    /\ RestIdle

\* the locals of analyze and of the method it is in
Locals ==
    [result |-> an_result, partial |-> an_partial, i |-> an_i, nchunks |-> Len(an_chunks),
     outcome |-> an_outcome, apc |-> apc]

\* analyze up to its first generate call, given what lines 67-94 computed
AnalyzeBeginWith(setup) ==
    /\ an_conversation' = setup.conversation
    /\ an_filtered' = setup.filtered
    /\ an_chunks' = setup.chunks
    /\ an_result' = setup.result
    /\ an_outcome' = setup.outcome
    /\ an_i' = 1
    /\ apc' = IF setup.outcome = NoOutcome THEN FirstCall(Len(setup.chunks)) ELSE "done"

AnalyzeBegin ==
    /\ apc = "begin"
    /\ AnalyzeBeginWith(AnalyzeSetup(an_source, an_files, an_participant, an_start, an_end))
    /\ UNCHANGED <<an_source, an_files, an_participant, an_start, an_end, an_partial,
                   llm_calls>>
    /\ UNCHANGED notAnalyzeVars

\* one generate call and what the code does with what it gave
GenerateWith(after, reply) ==
    /\ llm_calls' = Append(llm_calls, [prompt |-> Prompt(Locals), ok |-> reply.ok,
                                       text |-> IF reply.ok THEN reply.text ELSE None])
    /\ an_result' = after.result
    /\ an_partial' = after.partial
    /\ an_i' = after.i
    /\ an_outcome' = after.outcome
    /\ apc' = after.apc
    /\ UNCHANGED <<an_source, an_files, an_participant, an_start, an_end, an_conversation,
                   an_filtered, an_chunks>>
    /\ UNCHANGED notAnalyzeVars

\* _analyze_combined: the one call of a single chunk
AnalyzeCombined ==
    /\ apc = "ANALYZE_ALL"
    /\ \E reply \in Replies(apc) : GenerateWith(AfterGenerate(Locals, reply), reply)

\* _analyze_multi_combined: a call of the loop over the chunks
AnalyzeChunkCall ==
    /\ apc \in {"SUMMARIZE", "EXTRACT_TOPICS", "EXTRACT_ACTION_ITEMS"}
    /\ \E reply \in Replies(apc) : GenerateWith(AfterGenerate(Locals, reply), reply)

\* _analyze_multi_combined: a merge call
AnalyzeMergeCall ==
    /\ apc \in {"MERGE_SUMMARIES", "MERGE_TOPICS", "MERGE_ACTION_ITEMS"}
    /\ \E reply \in Replies(apc) : GenerateWith(AfterGenerate(Locals, reply), reply)

NextAnalyze == AnalyzeBegin \/ AnalyzeCombined \/ AnalyzeChunkCall \/ AnalyzeMergeCall

SpecAnalyze == InitAnalyze /\ [][NextAnalyze]_vars

-----------------------------------------------------------------------------
(* Calls of the filters and of the chunker on Conversation objects, one after
   the other, each on an object made so far *)

InitFrame ==
    /\ \E conv \in FrameConversations : heap = <<conv>>
    /\ fr_before = <<>>
    /\ fr_self = 0
    /\ fr_call = "none"
    /\ fr_returned = <<>>
    /\ fr_calls = 0
    /\ ChunkIdle
    /\ FilterIdle
    /\ ParseIdle
    /\ DispatchIdle
    /\ NeedsIdle
    /\ AnalyzeIdle
    /\ ImageIdle
    /\ UploadIdle

\* the call named name on object self gave made
FrameCalled(name, self, made) ==
    /\ fr_calls < MaxFrameCalls
    /\ fr_before' = heap
    /\ heap' = made.heap
    /\ fr_returned' = made.returned
    /\ fr_self' = self
    /\ fr_call' = name
    /\ fr_calls' = fr_calls + 1
    /\ UNCHANGED notFrameVars

FrameFilterByParticipant ==
    \E self \in 1..Len(heap), p \in FrameParticipants \ {NoneStr} :
        FrameCalled("filter_by_participant", self, HeapFilterByParticipant(heap, self, p))

FrameFilterByDateRange ==
    \E self \in 1..Len(heap), s \in FrameDates, e \in FrameDates :
        FrameCalled("filter_by_date_range", self, HeapFilterByDateRange(heap, self, s, e))

FrameApplyFilters ==
    \E conv \in 1..Len(heap), p \in FrameParticipants, s \in FrameDates, e \in FrameDates :
        FrameCalled("apply_filters", conv, HeapApplyFilters(heap, conv, p, s, e))

FrameChunk ==
    \E conv \in 1..Len(heap), maxc \in FrameMaxChars :
        FrameCalled("chunk", conv, HeapChunk(heap, conv, maxc))

NextFrame == FrameFilterByParticipant \/ FrameFilterByDateRange \/ FrameApplyFilters \/ FrameChunk

SpecFrame == InitFrame /\ [][NextFrame]_vars

-----------------------------------------------------------------------------
(* ImageParser.parse: the vision model first, the OCR when it gave no text *)

InitImage ==
    /\ img_vision \in VisionOutcomes
    /\ img_ocr \in OcrOutcomes
    /\ img_text = None
    /\ img_tried = <<>>
    /\ img_handed = None
    /\ img_outcome = NoOutcome
    /\ ipc = "llava"
    /\ ChunkIdle
    /\ FilterIdle
    /\ ParseIdle
    /\ DispatchIdle
    /\ NeedsIdle
    /\ AnalyzeIdle
    /\ FrameIdle
    /\ UploadIdle

\* lines 44-45: "text = self._try_llava(source)" and the test behind it
ImageTryLlava ==
    /\ ipc = "llava"
    /\ img_text' = TryLlava(img_vision)
    /\ img_tried' = Append(img_tried, "llava")
    /\ ipc' = IF NoText(TryLlava(img_vision)) THEN "ocr" ELSE "return"
    /\ UNCHANGED <<img_vision, img_ocr, img_handed, img_outcome>>
    /\ UNCHANGED notImageVars

\* line 46: "text = self._try_ocr(source)"
ImageTryOcr ==
    /\ ipc = "ocr"
    /\ img_text' = TryOcr(img_ocr)
    /\ img_tried' = Append(img_tried, "ocr")
    /\ ipc' = "return"
    /\ UNCHANGED <<img_vision, img_ocr, img_handed, img_outcome>>
    /\ UNCHANGED notImageVars

\* lines 47-50
ImageReturn ==
    /\ ipc = "return"
    /\ img_handed' = ImageResult(img_text).handed
    /\ img_outcome' = ImageResult(img_text).outcome
    /\ ipc' = "done"
    /\ UNCHANGED <<img_vision, img_ocr, img_text, img_tried>>
    /\ UNCHANGED notImageVars

NextImage == ImageTryLlava \/ ImageTryOcr \/ ImageReturn

SpecImage == InitImage /\ [][NextImage]_vars

-----------------------------------------------------------------------------
(* parse_file and analyze_file: one request from the upload to the response *)

InitUpload ==
    /\ up_endpoint \in {"parse_file", "analyze_file"}
    /\ \E name \in UploadNames, start \in IsoDates, end \in IsoDates :
          /\ up_endpoint = "parse_file" => start = NoneStr /\ end = NoneStr
          /\ up_form = [filename |-> name, start_date |-> start, end_date |-> end]
    /\ up_analyzer \in AnalyzerOutcomes
    /\ tmp_files = {}
    /\ tmp_path = None
    /\ up_response = 0
    /\ upc = "save"
    /\ ChunkIdle
    /\ FilterIdle
    /\ ParseIdle
    /\ DispatchIdle
    /\ NeedsIdle
    /\ AnalyzeIdle
    /\ FrameIdle
    /\ ImageIdle

\* lines 105-108 and 171-174: the upload is written to a temporary file
\* that outlives the with block (delete=False)
UploadSave ==
    /\ upc = "save"
    /\ tmp_path' = TempName(Cardinality(tmp_files) + 1, UploadSuffix(up_form.filename))
    /\ tmp_files' = tmp_files \cup {TempName(Cardinality(tmp_files) + 1,
                                             UploadSuffix(up_form.filename))}
    /\ upc' = IF up_endpoint = "analyze_file" THEN "dates" ELSE "call"
    /\ UNCHANGED <<up_endpoint, up_form, up_analyzer, up_response>>
    /\ UNCHANGED notUploadVars

\* lines 176-177: the two dates of the form, before the try statement; a
\* ValueError of fromisoformat leaves the function here
UploadDates ==
    /\ upc = "dates"
    /\ IF FormDateRaises(up_form.start_date) \/ FormDateRaises(up_form.end_date)
       THEN /\ up_response' = ResponseStatus(up_endpoint, "unhandled")
            /\ upc' = "done"
       ELSE /\ up_response' = up_response
            /\ upc' = "call"
    /\ UNCHANGED <<up_endpoint, up_form, up_analyzer, tmp_files, tmp_path>>
    /\ UNCHANGED notUploadVars

\* lines 110-116 and 179-189: the call of the analyzer in its try statement,
\* the finally clause unlinking the temporary file
UploadCall ==
    /\ upc = "call"
    /\ up_response' = ResponseStatus(up_endpoint, up_analyzer)
    /\ tmp_files' = tmp_files \ {tmp_path}
    /\ upc' = "done"
    /\ UNCHANGED <<up_endpoint, up_form, up_analyzer, tmp_path>>
    /\ UNCHANGED notUploadVars

NextUpload == UploadSave \/ UploadDates \/ UploadCall

SpecUpload == InitUpload /\ [][NextUpload]_vars

-----------------------------------------------------------------------------
(* Claims about ConversationChunker.chunk, checked under SpecChunk *)

RECURSIVE Flatten(_)
\* the message lists of the chunks, concatenated in chunk order
Flatten(cs) == IF cs = <<>> THEN <<>> ELSE Head(cs) \o Flatten(Tail(cs))

RECURSIVE SumLen(_)
SumLen(cs) == IF cs = <<>> THEN 0 ELSE Len(Head(cs)) + SumLen(Tail(cs))

\* C1: when chunk returns, the chunks' message lists concatenated in chunk
\* order are exactly the input message list, and the chunk lengths sum to
\* len(conversation.messages).
C1_ChunksPartitionInput ==
    cpc = "done" =>
        /\ Flatten(chunks) = conversation
        /\ SumLen(chunks) = Len(conversation)

C1_Witness ==
    /\ cpc = "done"
    /\ Len(chunks) >= 2
    /\ \E i \in 1..Len(chunks) : Len(chunks[i]) >= 2

\* C3: every returned chunk serializes to at most max_chars characters,
\* unless it is a single message that is itself longer than max_chars.
C3_ChunkFitsUnlessSingleOversized ==
    cpc = "done" =>
        \A i \in 1..Len(chunks) :
            \/ Len(ToText(chunks[i])) <= max_chars
            \/ Len(chunks[i]) = 1 /\ Len(Str(chunks[i][1])) > max_chars

C3_Witness ==
    /\ cpc = "done"
    /\ \E i \in 1..Len(chunks) :
           Len(chunks[i]) >= 2 /\ Len(ToText(chunks[i])) = max_chars
    /\ \E i \in 1..Len(chunks) :
           Len(chunks[i]) = 1 /\ Len(Str(chunks[i][1])) > max_chars

\* C4: every returned chunk stays under max_chars when serialized; stated
\* with the tolerance the test allows: below 2 * max_chars.
C4_EveryChunkUnderLimit ==
    cpc = "done" =>
        \A i \in 1..Len(chunks) : Len(ToText(chunks[i])) < 2 * max_chars

\* C5: chunk never returns an empty chunk, and a conversation without
\* messages yields the empty list.
C5_NoEmptyChunk ==
    cpc = "done" =>
        /\ \A i \in 1..Len(chunks) : Len(chunks[i]) >= 1
        /\ (conversation = <<>> => chunks = <<>>)

C5_Witness == cpc = "done" /\ conversation = <<>> /\ chunks = <<>>

\* a message whose text alone is longer than max_chars
Oversized(m) == Len(Str(m)) > max_chars

\* C24: a message whose serialized length exceeds max_chars is never split
\* and is the only message of its chunk: while chunk runs it is alone in
\* current_messages, and it is alone in the chunk returned.
C24_OversizedMessageIsAlone ==
    /\ (\E k \in 1..Len(current_messages) : Oversized(current_messages[k]))
          => Len(current_messages) = 1
    /\ \A i \in 1..Len(chunks) :
          (\E k \in 1..Len(chunks[i]) : Oversized(chunks[i][k]))
              => /\ Len(chunks[i]) = 1
                 /\ \E k \in 1..Len(conversation) : conversation[k] = chunks[i][1]

\* C24 witness: an oversized message between two messages that fit, each
\* of the three in a chunk of its own
C24_Witness ==
    /\ cpc = "done"
    /\ Len(conversation) = 3
    /\ Len(chunks) = 3
    /\ ~Oversized(conversation[1])
    /\ Oversized(conversation[2])
    /\ ~Oversized(conversation[3])
    /\ Len(Str(conversation[1])) + 1 + Len(Str(conversation[3])) <= max_chars

\* C25: chunk closes a chunk only when it must: for consecutive chunks A, B
\* of the output, len(A.to_text()) + 1 + len(str(first message of B)) is
\* more than max_chars.
C25_ChunksAreGreedy ==
    cpc = "done" =>
        \A i \in 1..(Len(chunks) - 1) :
            Len(ToText(chunks[i])) + 1 + Len(Str(chunks[i + 1][1])) > max_chars

\* C25 witness: a chunk of two messages closed before a message that would
\* have made it one character too long
C25_Witness ==
    /\ cpc = "done"
    /\ Len(chunks) = 2
    /\ Len(chunks[1]) = 2
    /\ Len(ToText(chunks[1])) + 1 + Len(Str(chunks[2][1])) = max_chars + 1


-----------------------------------------------------------------------------
(* Claims about the filters, checked under SpecFilter *)

\* the positions of self_messages a filter is to keep, as a strictly
\* increasing list of positions
IsKeptExactly(result, given, keepPos) ==
    \E f \in [1..Len(result) -> 1..Len(given)] :
        /\ \A i \in 1..Len(result) : result[i] = given[f[i]]
        /\ \A i, k \in 1..Len(result) : i < k => f[i] < f[k]
        /\ { f[i] : i \in 1..Len(result) } = keepPos

C7_DateRangeInclusive ==
    (fpc = "done" /\ filter_call.op = "filter_by_date_range") =>
        IsKeptExactly(filtered, self_messages,
            { i \in 1..Len(self_messages) :
                LET t == self_messages[i].timestamp IN
                /\ (filter_call.start = None \/ t = filter_call.start
                        \/ TsLess(filter_call.start, t))
                /\ (filter_call.end = None \/ t = filter_call.end
                        \/ TsLess(t, filter_call.end)) })

C7_Witness ==
    /\ fpc = "done" /\ filter_call.op = "filter_by_date_range"
    /\ filter_call.start # None /\ filter_call.end # None
    /\ \E i \in 1..Len(filtered) : filtered[i].timestamp = filter_call.start
    /\ \E i \in 1..Len(filtered) : filtered[i].timestamp = filter_call.end
    /\ filter_call.start # filter_call.end
    /\ Len(filtered) < Len(self_messages)


-----------------------------------------------------------------------------
(* Claims about WhatsAppTextParser.parse_text, checked under SpecParse *)

\* a line starts a message: it is not blank, a pattern matches it and the
\* timestamp of the match parses
StartsMessage(raw) == TryParseLine(raw) # None

\* the k-th of the positions S
Kth(S, k) == CHOOSE i \in S : Cardinality({ j \in S : j <= i }) = k

\* the last line before the next position of S after i
LastLineOf(S, i) ==
    IF \E j \in S : j > i THEN SetMin({ j \in S : j > i }) - 1 ELSE Len(lines)

RECURSIVE Continuation(_, _)
\* "\n" + line for each of the lines a..b, in source order
Continuation(a, b) ==
    IF a > b THEN <<>> ELSE <<"\n">> \o lines[a] \o Continuation(a + 1, b)

RECURSIVE ParsedAlone(_)
\* what each of the lines ls parses to on its own
ParsedAlone(ls) ==
    IF ls = <<>> THEN <<>> ELSE <<TryParseLine(Head(ls))>> \o ParsedAlone(Tail(ls))

\* first: what each line parses to on its own; the messages are the lines
\* that start one, each with the lines up to the next start appended
MessagesGroupLines(first) ==
    LET S == { i \in 1..Len(lines) : first[i] # None }
    IN  /\ Len(messages) = Cardinality(S)
        /\ \A k \in 1..Len(messages) :
             messages[k] =
                 [first[Kth(S, k)] EXCEPT
                    !.content = first[Kth(S, k)].content
                                   \o Continuation(Kth(S, k) + 1, LastLineOf(S, Kth(S, k)))]

\* C2: a line that does not start a message never becomes a message: before
\* the first message it is dropped, after it it is appended to the message
\* in progress behind one newline, in source order; parse_text returns one
\* message per line that starts a message.
C2_NonStartLinesContinueOrDrop ==
    ppc = "done" =>
        MessagesGroupLines(ParsedAlone(lines))

C2_Witness ==
    /\ ppc = "done"
    /\ Len(lines) = 3
    /\ CleanLine(lines[1]) # <<>> /\ ~StartsMessage(lines[1])
    /\ StartsMessage(lines[2])
    /\ FirstMatch(CleanLine(lines[3]), 1).matched /\ ~StartsMessage(lines[3])
    /\ Len(messages) = 1

\* the remainder of a message line after its timestamp prefix
RestOf(raw) == From(CleanLine(raw), FirstMatch(CleanLine(raw), 1).end)

\* rest holds a sender delimiter: a non-empty colon-free run, a colon and a
\* character of the class after
HasDelimiter(rest, after) ==
    \E i \in 2..(Len(rest) - 1) :
        rest[i] = ":" /\ rest[i - 1] # ":" /\ rest[i + 1] \in after

\* the line just consumed by the loop started a message
JustStarted == ppc = "loop" /\ li > 1 /\ StartsMessage(lines[li - 1])

\* C10 as stated: a message line whose remainder holds no colon-free run
\* followed by ": " (colon, space) gives sender "System", is_system true and
\* the whole remainder as content.
C10_NoColonSpaceMeansSystem ==
    (JustStarted /\ ~HasDelimiter(RestOf(lines[li - 1]), {" "})) =>
        /\ current_msg.sender = Chars("System")
        /\ current_msg.is_system
        /\ current_msg.content = RestOf(lines[li - 1])

\* C10 amended: a message line whose remainder holds no colon-free run
\* followed by a colon and a whitespace character (space, tab, ...) gives
\* sender "System", is_system true and the whole remainder as content.
C10_NoColonWhitespaceMeansSystem ==
    (JustStarted /\ ~HasDelimiter(RestOf(lines[li - 1]), WhiteSpace)) =>
        /\ current_msg.sender = Chars("System")
        /\ current_msg.is_system
        /\ current_msg.content = RestOf(lines[li - 1])

C10_Witness ==
    /\ JustStarted
    /\ ~HasDelimiter(RestOf(lines[li - 1]), WhiteSpace)
    /\ current_msg.sender = Chars("System")
    /\ ~IsSystemMessage(current_msg.content)

\* the timestamp _extract_message reads from match m (groups swapped for the
\* time-first pattern)
TimestampOf(m) ==
    IF m.pattern = 1 THEN ParseTimestamp(m.g2, m.g1) ELSE ParseTimestamp(m.g1, m.g2)

\* a pattern matches the line but its date and time parse under no format
PrefixUnparseable(m) == m.matched /\ TimestampOf(m) = None

Unparseable(raw) == PrefixUnparseable(FirstMatch(CleanLine(raw), 1))

\* C11: a line whose timestamp prefix matches a pattern but parses under no
\* format of _DATE_FORMATS produces no message: the loop appends it to the
\* message in progress behind a newline, or drops it when none has started.
C11_UnparseableTimestampIsContinuation ==
    [][(ppc = "loop" /\ li <= Len(lines) /\ li' = li + 1 /\ Unparseable(lines[li])) =>
          /\ messages' = messages
          /\ current_msg' =
                IF current_msg = None THEN None
                ELSE [current_msg EXCEPT
                        !.content = current_msg.content \o <<"\n">> \o lines[li]]]_vars

C11_Witness ==
    /\ ppc = "loop"
    /\ li > 2
    /\ StartsMessage(lines[li - 2])
    /\ Unparseable(lines[li - 1])
    /\ messages = <<>>
    /\ current_msg # None
    /\ current_msg.content = TryParseLine(lines[li - 2]).content \o <<"\n">> \o lines[li - 1]

\* the date a match holds: group 2 of the time-first pattern, else group 1
DateStrOf(m) == IF m.pattern = 1 THEN m.g2 ELSE m.g1

\* the first and the second number of a date "a/b/c"
FirstField(date) == NumVal(SubSeq(date, 1, Find(date, "/", 1) - 1))

SecondField(date) ==
    NumVal(SubSeq(date, Find(date, "/", 1) + 1,
                  Find(date, "/", Find(date, "/", 1) + 1) - 1))

\* the date fields of a message line leave the region open: both are months
Ambiguous(date) == FirstField(date) <= 12 /\ SecondField(date) <= 12

\* C23: a message line whose date has both its first and its second field
\* at most 12 is read day-first in every timestamp shape: the first field is
\* the day of the message's timestamp and the second its month.
C23_AmbiguousDateIsDayFirst ==
    (JustStarted /\ Ambiguous(DateStrOf(FirstMatch(CleanLine(lines[li - 1]), 1)))) =>
        /\ current_msg.timestamp.day
              = FirstField(DateStrOf(FirstMatch(CleanLine(lines[li - 1]), 1)))
        /\ current_msg.timestamp.month
              = SecondField(DateStrOf(FirstMatch(CleanLine(lines[li - 1]), 1)))

\* C12: no message returned by parse_text holds a character of
\* _UNICODE_JUNK in its content, on the first line or on a continuation line.
C12_NoJunkInContent ==
    ppc = "done" =>
        \A k \in 1..Len(messages) :
            \A j \in 1..Len(messages[k].content) : messages[k].content[j] \notin UnicodeJunk

\* C13: every message returned by parse_text has is_media true exactly when
\* its content holds "<media omitted>" in any letter case.
C13_IsMediaIffMarker ==
    ppc = "done" =>
        \A k \in 1..Len(messages) :
            messages[k].is_media <=> Contains(Lower(messages[k].content), MediaIndicator)

\* C14: every message returned by parse_text with is_system true has the
\* sender "System".
C14_SystemMessagesHaveSentinel ==
    ppc = "done" =>
        \A k \in 1..Len(messages) :
            messages[k].is_system => messages[k].sender = Chars("System")

\* C20: serializing the messages parse_text returned with to_text and
\* parsing the text again gives the same messages: same count, senders,
\* contents and timestamps to the minute.
C20_ToTextRoundTrips ==
    ppc = "done" =>
        LET again == ParseText(ToText(messages))
        IN  /\ Len(again) = Len(messages)
            /\ \A k \in 1..Len(messages) :
                  /\ again[k].sender = messages[k].sender
                  /\ again[k].content = messages[k].content
                  /\ FormatTs(again[k].timestamp) = FormatTs(messages[k].timestamp)

-----------------------------------------------------------------------------
(* Claims about ChatAnalyzer.parse and can_handle, checked under SpecDispatch *)

\* the parsers whose can_handle accepts the source
Accepting == { k \in 1..Len(Parsers) : CanHandle(k, source, files) }

LineStarts(s) == { i \in 1..Len(s) : i = 1 \/ s[i - 1] = "\n" }

\* some timestamp pattern matches at the start of some line of s
MatchesAtSomeLine(s) ==
    \E i \in LineStarts(s) : \E k \in 1..NumPatterns : PatternAt(k, s, i).matched

\* C9: for raw text that is not an existing .txt path, the text parser's
\* can_handle is true exactly when some timestamp pattern matches somewhere
\* in the first 1000 characters with the invisible marks removed, also when
\* the first timestamped line comes after other lines.
C9_CanHandleMatchesAnyLine ==
    \A i \in 1..Len(asked) :
        (/\ asked[i].parser = "WhatsAppTextParser"
         /\ ~(Suffix(source) = Chars(".txt") /\ PathExists(source, files)))
        => (asked[i].answer <=> MatchesAtSomeLine(RemoveJunk(Probe(source))))

\* the position of the last character of the line of s that starts at a
LineEnd(s, a) == IF Find(s, "\n", a) = 0 THEN Len(s) ELSE Find(s, "\n", a) - 1

\* some line of s that lies within the first ProbeChars characters is one
\* parse_text builds a message from
HasMessageLineInProbe(s) ==
    \E a \in LineStarts(s) :
        /\ LineEnd(s, a) <= ProbeChars
        /\ TryParseLine(SubSeq(s, a, LineEnd(s, a))) # None

\* C28: raw text, not the path of a file, that has within its first 1000
\* characters a line parse_text builds a message from is accepted by
\* ChatAnalyzer.parse: the text parser parses it to a non-empty Conversation
\* and no ValueError is raised, also when other lines come first.
C28_DetectionAgreesWithParsing ==
    (dpc = "done" /\ source \notin files /\ HasMessageLineInProbe(source)) =>
        /\ outcome = [kind |-> "return", value |-> ParserParse(4, source)]
        /\ ParseText(source) # <<>>

-----------------------------------------------------------------------------
(* Claims about ConversationChunker.needs_chunking, checked under SpecNeeds *)

RECURSIVE StrLenSum(_)
\* the lengths of str(message) over the messages, added up
StrLenSum(msgs) == IF msgs = <<>> THEN 0 ELSE Len(Str(Head(msgs))) + StrLenSum(Tail(msgs))

\* the length of the messages' texts joined by single newlines
JoinedLength(msgs) == IF msgs = <<>> THEN 0 ELSE StrLenSum(msgs) + (Len(msgs) - 1)

\* C15: needs_chunking is true exactly when the conversation's text, its
\* messages joined by single newlines, is longer than max_chars.
C15_NeedsChunkingIffLonger ==
    npc = "done" => (needs_result <=> JoinedLength(conversation) > max_chars)

\* C27: chunk and needs_chunking agree: for a non-empty conversation, chunk
\* returns exactly one chunk if and only if needs_chunking is false or the
\* conversation has exactly one message.
C27_ChunkAgreesWithNeedsChunking ==
    (npc = "done" /\ conversation # <<>>) =>
        (Len(Chunk(conversation, max_chars)) = 1
            <=> (~needs_result \/ Len(conversation) = 1))

\* C27 witness: needs_chunking is true for two messages or more that each fit
\* in a chunk, and chunk returns two chunks or more
C27_Witness ==
    /\ npc = "done"
    /\ needs_result
    /\ Len(conversation) >= 2
    /\ \A k \in 1..Len(conversation) : Len(Str(conversation[k])) <= max_chars
    /\ Len(Chunk(conversation, max_chars)) >= 2

C15_Witness ==
    /\ npc = "done"
    /\ Len(conversation) >= 2
    /\ JoinedLength(conversation) = max_chars
    /\ ~needs_result

-----------------------------------------------------------------------------
(* Claims about ChatAnalyzer.analyze, checked under SpecAnalyze *)

\* analyze has left its parse behind without the ValueError of an input no
\* parser handles
Parsed == apc # "begin" /\ an_outcome # NoParserError

\* analyze returned an AnalysisResult
Returned == apc = "done" /\ an_outcome.kind = "return"

\* C16: when parsing yields zero messages, or the filters remove every
\* message, analyze does not raise: it returns an AnalysisResult with a
\* non-empty summary, message_count 0 and participant_count 0, and makes no
\* generate call.
C16_EmptyConversationReturnsExplanation ==
    (Parsed /\ an_filtered = <<>>) =>
        /\ Returned
        /\ an_outcome.value.summary # <<>>
        /\ an_outcome.value.message_count = 0
        /\ an_outcome.value.participant_count = 0
        /\ llm_calls = <<>>

\* C16 witness: a conversation with messages, all of them removed by the
\* filters, and analyze has returned
C16_Witness ==
    /\ Returned
    /\ an_conversation # <<>>
    /\ an_filtered = <<>>
    /\ an_outcome.value.summary = Chars("No messages match the given filters.")

\* the senders of the messages of msgs that are not system messages
NonSystemSenders(msgs) ==
    { sender \in { msgs[k].sender : k \in 1..Len(msgs) } :
        \E k \in 1..Len(msgs) : msgs[k].sender = sender /\ ~msgs[k].is_system }

\* the year-month-day of a timestamp
DayOf(ts) == <<ts.year, ts.month, ts.day>>

\* the year-month-day a text "YYYY-MM-DD" names
DayNamed(str) ==
    <<NumVal(SubSeq(str, 1, 4)), NumVal(SubSeq(str, 6, 7)), NumVal(SubSeq(str, 9, 10))>>

\* C17: on every successful analyze with a non-empty filtered conversation,
\* message_count is the number of filtered messages (system messages
\* included), participant_count is the number of distinct senders of the
\* filtered non-system messages, and date_range names the dates of the first
\* and the last filtered message.
C17_MetadataIsAccurate ==
    (Returned /\ an_filtered # <<>>) =>
        /\ an_outcome.value.message_count = Len(an_filtered)
        /\ an_outcome.value.participant_count = Cardinality(NonSystemSenders(an_filtered))
        /\ Len(an_outcome.value.date_range) = 24
        /\ SubSeq(an_outcome.value.date_range, 11, 14) = Chars(" to ")
        /\ DayNamed(SubSeq(an_outcome.value.date_range, 1, 10))
              = DayOf(an_filtered[1].timestamp)
        /\ DayNamed(SubSeq(an_outcome.value.date_range, 15, 24))
              = DayOf(an_filtered[Len(an_filtered)].timestamp)

\* C17 witness: analyze returned for a filtered conversation that holds a
\* system message and messages of two senders on different days
C17_Witness ==
    /\ Returned
    /\ llm_calls # <<>>
    /\ \E k \in 1..Len(an_filtered) : an_filtered[k].is_system
    /\ Cardinality(NonSystemSenders(an_filtered)) = 2
    /\ an_outcome.value.message_count = 3
    /\ an_outcome.value.date_range = Chars("2024-01-12 to 2024-04-03")

\* C18: a generate call that fails is the last call analyze makes; analyze
\* is over, and what it gave is the RuntimeError raised, not an
\* AnalysisResult and not the ValueError of an unrecognized input.
C18_FailedCallAborts ==
    \A k \in 1..Len(llm_calls) :
        ~llm_calls[k].ok =>
            /\ k = Len(llm_calls)
            /\ apc = "done"
            /\ an_outcome.kind = "raise"
            /\ an_outcome.value.exception = "RuntimeError"
            /\ an_outcome # NoParserError

\* C18 witness: with more than one chunk, a merge call failed after the
\* calls before it had returned
C18_Witness ==
    /\ apc = "done"
    /\ Len(an_chunks) >= 2
    /\ Len(llm_calls) >= 2
    /\ ~llm_calls[Len(llm_calls)].ok
    /\ llm_calls[Len(llm_calls)].prompt.template = "MERGE_TOPICS"
    /\ an_outcome = GenerateError

\* C19: when the filtered conversation splits into k >= 2 chunks, a
\* successful analyze has made k + 1 generate calls: one per chunk and one
\* merge call.
C19_OneCallPerChunkPlusMerge ==
    (Returned /\ Len(an_chunks) >= 2) => Len(llm_calls) = Len(an_chunks) + 1

\* the generate calls made, as positions of llm_calls, for a template
CallsOf(template) == { k \in 1..Len(llm_calls) : llm_calls[k].prompt.template = template }

\* the text the call of template for chunk i returned, None when there is
\* no such call or it failed
ReturnedFor(template, i) ==
    IF \E k \in CallsOf(template) : llm_calls[k].prompt.chunk = i
    THEN llm_calls[CHOOSE k \in CallsOf(template) : llm_calls[k].prompt.chunk = i].text
    ELSE None

\* the positions of the calls whose prompt holds the text of a chunk
ChunkCalls == { k \in 1..Len(llm_calls) : llm_calls[k].prompt.chunk > 0 }

\* the positions of the merge calls
MergeCalls == { k \in 1..Len(llm_calls) : llm_calls[k].prompt.chunk = 0 }

\* C26: in the multi-chunk path the generate calls are sequential and in
\* chunk order: a call is issued only after every call before it returned,
\* the calls of chunk i come before the calls of chunk i + 1, a merge call
\* comes after the calls of all chunks returned, and the summaries that fill
\* the merge prompt are the chunks' summaries in chunk order.
C26_CallsFollowChunkOrder ==
    Len(an_chunks) >= 2 =>
        /\ \A j, k \in 1..Len(llm_calls) : j < k => llm_calls[j].ok
        /\ \A j, k \in ChunkCalls :
              j < k => llm_calls[j].prompt.chunk <= llm_calls[k].prompt.chunk
        /\ \A k \in MergeCalls :
              /\ \A j \in ChunkCalls : j < k
              /\ \A i \in 1..Len(an_chunks) :
                    /\ ReturnedFor("SUMMARIZE", i) # None
                    /\ ReturnedFor("EXTRACT_TOPICS", i) # None
                    /\ ReturnedFor("EXTRACT_ACTION_ITEMS", i) # None
        /\ \A k \in CallsOf("MERGE_SUMMARIES") :
              llm_calls[k].prompt.merged =
                  JoinWith([i \in 1..Len(an_chunks) |-> ReturnedFor("SUMMARIZE", i)],
                           Chars("\n\n---\n\n"))

\* C26 witness: three chunks whose summaries differ, and the merge of the
\* summaries was called
C26_Witness ==
    /\ Len(an_chunks) = 3
    /\ CallsOf("MERGE_SUMMARIES") # {}
    /\ ReturnedFor("SUMMARIZE", 1) # ReturnedFor("SUMMARIZE", 3)

\* C29: after a successful analysis of a conversation that splits into two
\* chunks or more, participant_summaries is empty, and summary, topics and
\* action_items are what the merge calls returned.
C29_NoParticipantSummariesOnMultiChunk ==
    (Returned /\ Len(an_chunks) >= 2) =>
        /\ an_outcome.value.participant_summaries = <<>>
        /\ an_outcome.value.summary = ReturnedFor("MERGE_SUMMARIES", 0)
        /\ ReturnedFor("MERGE_TOPICS", 0) # None
        /\ an_outcome.value.topics = ParseList(ReturnedFor("MERGE_TOPICS", 0))
        /\ ReturnedFor("MERGE_ACTION_ITEMS", 0) # None
        /\ an_outcome.value.action_items = ParseList(ReturnedFor("MERGE_ACTION_ITEMS", 0))

\* C29 witness: a successful multi-chunk analysis with participants, topics
\* and action items, and no participant summary
C29_Witness ==
    /\ Returned
    /\ Len(an_chunks) >= 2
    /\ an_outcome.value.participant_count > 0
    /\ an_outcome.value.topics # <<>>
    /\ an_outcome.value.action_items # <<>>
    /\ an_outcome.value.participant_summaries = <<>>

-----------------------------------------------------------------------------
(* Claims about Conversation objects, checked under SpecFrame *)

\* the calls that return one Conversation
FilterCalls == {"filter_by_participant", "filter_by_date_range", "apply_filters"}

\* C21: the filters and chunk never mutate their input: after a call every
\* Conversation that existed before it, its input among them, has the same
\* messages in the same order with the same fields, and the Conversation a
\* filter call returns is an object other than its input.
C21_CallsLeaveInputAlone ==
    /\ \A obj \in 1..Len(fr_before) : heap[obj] = fr_before[obj]
    /\ fr_call \in FilterCalls => fr_returned[1] # fr_self

-----------------------------------------------------------------------------
(* Claims about ImageParser.parse, checked under SpecImage *)

\* what an extraction gave holds a character that is no whitespace
HasText(raw) == \E i \in 1..Len(raw) : raw[i] \notin WhiteSpace

\* the vision model produced text: it responded, and its response is not
\* absent, empty or blank
VisionProducedText == img_vision.kind = "response" /\ HasText(img_vision.response)

\* the OCR produced text
OcrProducedText == img_ocr.kind = "text" /\ HasText(img_ocr.text)

\* C22: parse tries the vision model first and runs the OCR exactly when
\* the vision model produced no text (it failed, or its response is absent,
\* empty or blank); parse never raises; when neither produced text it
\* returns an empty Conversation without calling parse_text, and otherwise
\* it returns parse_text of the text produced, the vision model's when it
\* produced one, with the whitespace around it removed.
C22_VisionFirstThenOcr ==
    /\ img_tried \in { <<>>, <<"llava">>, <<"llava", "ocr">> }
    /\ ipc \in {"return", "done"} =>
          (img_tried = <<"llava", "ocr">> <=> ~VisionProducedText)
    /\ ipc = "done" =>
          /\ img_outcome.kind = "return"
          /\ (~VisionProducedText /\ ~OcrProducedText) =>
                img_handed = None /\ img_outcome.value = <<>>
          /\ VisionProducedText =>
                /\ img_handed = Strip(img_vision.response)
                /\ img_outcome.value = ParseText(Strip(img_vision.response))
          /\ (~VisionProducedText /\ OcrProducedText) =>
                /\ img_handed = Strip(img_ocr.text)
                /\ img_outcome.value = ParseText(Strip(img_ocr.text))

\* C22 witness: the vision model produced text that parses to a message
\* while the OCR would have produced another, and the OCR was not run
C22_Witness ==
    /\ ipc = "done"
    /\ VisionProducedText
    /\ OcrProducedText
    /\ img_tried = <<"llava">>
    /\ Len(img_outcome.value) = 1
    /\ img_outcome.value[1].sender = Chars("Alice")

-----------------------------------------------------------------------------
(* Claims about the upload endpoints, checked under SpecUpload *)

\* C30: when a request to /api/parse/file or /api/analyze/file is over,
\* whatever the way it ended (a result, a ValueError or RuntimeError of the
\* analyzer, a start_date or end_date that is no ISO date), the temporary
\* file it created no longer exists.
C30_TempFileDeletedOnEveryExit ==
    upc = "done" => tmp_path \notin tmp_files

====
